---------------------------- MODULE Spec2Model ----------------------------
(***************************************************************************)
(* Cultural Bias Shield: the scoring and aggregation pipeline.             *)
(*                                                                         *)
(*   cultural_analyzer.py  Dimension Aligner, Cultural Fit Aggregator      *)
(*   cultural_scorer.py    Alignment Scorer                                *)
(*   app.py                Recommendation Generator, risk level            *)
(*                                                                         *)
(* Python floats are modelled as exact rationals [num, den] in lowest      *)
(* terms with den > 0, so equality of two scores is equality of records.   *)
(* A dictionary is a function whose DOMAIN is the set of its keys.         *)
(***************************************************************************)
EXTENDS Integers, Sequences, FiniteSets, TLC

(***************************************************************************)
(* Rational arithmetic (the float operators +, -, *, /, abs, min, max).    *)
(***************************************************************************)
Abs(n) == IF n < 0 THEN -n ELSE n

RECURSIVE GCD(_, _)
GCD(a, b) == IF b = 0 THEN a ELSE GCD(b, a % b)

Rat(n, d) ==
    LET s == IF d < 0 THEN -1 ELSE 1
        g == GCD(Abs(n), Abs(d))
    IN  [num |-> (s * n) \div g, den |-> (s * d) \div g]

RInt(n) == [num |-> n, den |-> 1]

RAdd(x, y) ==
    LET l == (x.den \div GCD(x.den, y.den)) * y.den
    IN  Rat(x.num * (l \div x.den) + y.num * (l \div y.den), l)

RNeg(x) == [num |-> -x.num, den |-> x.den]

RSub(x, y) == RAdd(x, RNeg(y))

RMul(x, y) ==
    LET g1 == GCD(Abs(x.num), y.den)
        g2 == GCD(Abs(y.num), x.den)
    IN  Rat((x.num \div g1) * (y.num \div g2), (x.den \div g2) * (y.den \div g1))

RDiv(x, y) == RMul(x, Rat(y.den, y.num))

RAbs(x) == [num |-> Abs(x.num), den |-> x.den]

\* The two sides are compared over the least common denominator, which
\* keeps the products small.
RLe(x, y) ==
    LET g == GCD(x.den, y.den)
        h == IF g = 0 THEN 1 ELSE g
    IN  x.num * (y.den \div h) <= y.num * (x.den \div h)

RLt(x, y) ==
    LET g == GCD(x.den, y.den)
        h == IF g = 0 THEN 1 ELSE g
    IN  x.num * (y.den \div h) < y.num * (x.den \div h)

RMax(x, y) == IF RLt(x, y) THEN y ELSE x

RMin(x, y) == IF RLt(y, x) THEN y ELSE x

RECURSIVE RSum(_)
RSum(s) == IF s = <<>> THEN RInt(0) ELSE RAdd(s[1], RSum(Tail(s)))

(***************************************************************************)
(* Dictionaries.                                                           *)
(***************************************************************************)
DictGet(d, k, default) == IF k \in DOMAIN d THEN d[k] ELSE default

DictPut(d, k, v) == [x \in DOMAIN d \cup {k} |-> IF x = k THEN v ELSE d[x]]

EmptyDict == [x \in {} |-> 0]

(***************************************************************************)
(* Bounds of the model.                                                    *)
(***************************************************************************)
MaxCountries == 2
MaxFlags == 2

BoundedSeq(S, n) == UNION {[1..k -> S] : k \in 0..n}

(***************************************************************************)
(* CulturalScorer: static data.                                            *)
(***************************************************************************)
hofstede_data ==
    [c \in {"US", "UK", "JP", "CN", "DE", "FR", "IN", "BR"} |->
       CASE c = "US" -> [PDI |-> 40, IDV |-> 91, MAS |-> 62, UAI |-> 46, LTO |-> 26, IVR |-> 68]
         [] c = "UK" -> [PDI |-> 35, IDV |-> 89, MAS |-> 66, UAI |-> 35, LTO |-> 51, IVR |-> 69]
         [] c = "JP" -> [PDI |-> 54, IDV |-> 46, MAS |-> 95, UAI |-> 92, LTO |-> 88, IVR |-> 42]
         [] c = "CN" -> [PDI |-> 80, IDV |-> 20, MAS |-> 66, UAI |-> 30, LTO |-> 87, IVR |-> 24]
         [] c = "DE" -> [PDI |-> 35, IDV |-> 67, MAS |-> 66, UAI |-> 65, LTO |-> 83, IVR |-> 40]
         [] c = "FR" -> [PDI |-> 68, IDV |-> 71, MAS |-> 43, UAI |-> 86, LTO |-> 63, IVR |-> 48]
         [] c = "IN" -> [PDI |-> 77, IDV |-> 48, MAS |-> 56, UAI |-> 40, LTO |-> 51, IVR |-> 26]
         [] c = "BR" -> [PDI |-> 69, IDV |-> 38, MAS |-> 49, UAI |-> 76, LTO |-> 44, IVR |-> 59]]

\* Mutant: the analyzer's copy of the table has no profile of "US".
analyzer_hofstede_data_without_US ==
    [c \in {"UK", "JP", "CN", "DE", "FR", "IN", "BR"} |-> hofstede_data[c]]

\* CulturalAnalyzer's own copy of the table.
analyzer_hofstede_data ==
    [c \in {"US", "UK", "JP", "CN", "DE", "FR", "IN", "BR"} |->
       CASE c = "US" -> [PDI |-> 40, IDV |-> 91, MAS |-> 62, UAI |-> 46, LTO |-> 26, IVR |-> 68]
         [] c = "UK" -> [PDI |-> 35, IDV |-> 89, MAS |-> 66, UAI |-> 35, LTO |-> 51, IVR |-> 69]
         [] c = "JP" -> [PDI |-> 54, IDV |-> 46, MAS |-> 95, UAI |-> 92, LTO |-> 88, IVR |-> 42]
         [] c = "CN" -> [PDI |-> 80, IDV |-> 20, MAS |-> 66, UAI |-> 30, LTO |-> 87, IVR |-> 24]
         [] c = "DE" -> [PDI |-> 35, IDV |-> 67, MAS |-> 66, UAI |-> 65, LTO |-> 83, IVR |-> 40]
         [] c = "FR" -> [PDI |-> 68, IDV |-> 71, MAS |-> 43, UAI |-> 86, LTO |-> 63, IVR |-> 48]
         [] c = "IN" -> [PDI |-> 77, IDV |-> 48, MAS |-> 56, UAI |-> 40, LTO |-> 51, IVR |-> 26]
         [] c = "BR" -> [PDI |-> 69, IDV |-> 38, MAS |-> 49, UAI |-> 76, LTO |-> 44, IVR |-> 59]]

\* Mutant: the cultural fit weighs 0.75, the weights add up to 1.05.
scoring_weights_heavy ==
    [cultural_fit |-> Rat(75, 100), bias_freedom |-> Rat(25, 100),
     confidence_bonus |-> Rat(5, 100)]

scoring_weights ==
    [cultural_fit |-> Rat(7, 10), bias_freedom |-> Rat(25, 100), confidence_bonus |-> Rat(5, 100)]

(***************************************************************************)
(* CulturalScorer: the per-country computations.  bias_results is the      *)
(* record [flags |-> sequence of flags]; a flag is a record that may or    *)
(* may not carry a "severity" field.  cultural_analysis is the record      *)
(* [cultural_scores, insights, suggestions] of dictionaries by country.    *)
(***************************************************************************)
RECURSIVE TotalPenalty(_)
TotalPenalty(flags) ==
    IF flags = <<>> THEN RInt(0)
    ELSE LET flag == flags[Len(flags)]
             severity == IF "severity" \in DOMAIN flag THEN flag.severity ELSE 5
             penalty == RMul(Rat(severity, 10), Rat(1, 10))
         IN  RAdd(TotalPenalty(SubSeq(flags, 1, Len(flags) - 1)), penalty)

\* Mutant: only the last flag is penalised.
_calculate_bias_penalty_last_flag(bias_results) ==
    LET flags == DictGet(bias_results, "flags", <<>>)
    IN  IF flags = <<>> THEN RInt(0)
        ELSE RMin(Rat(8, 10), TotalPenalty(<<flags[Len(flags)]>>))

\* Mutant: the cap of 0.8 is forgotten.
_calculate_bias_penalty_uncapped(bias_results) ==
    LET flags == DictGet(bias_results, "flags", <<>>)
    IN  IF flags = <<>> THEN RInt(0) ELSE TotalPenalty(flags)

_calculate_bias_penalty(bias_results) ==
    LET flags == DictGet(bias_results, "flags", <<>>)
    IN  IF flags = <<>> THEN RInt(0)
        ELSE RMin(Rat(8, 10), TotalPenalty(flags))

(***************************************************************************)
(* The same sum as the program's floats carry it.  Above, a float is the   *)
(* real number it stands for; total_penalty += penalty rounds every        *)
(* partial sum to a binary64, so the total depends on the order of the     *)
(* flags.  A binary64 below 4 that is a multiple of 2^-59 is written       *)
(* <<a, b, c>> for (a * 2^40 + b * 2^20 + c) * 2^-59, each limb below      *)
(* 2^20 (a below 2^21); every penalty of a severity 1..10 and every        *)
(* partial sum of them is such a number.                                   *)
(***************************************************************************)
Limb == 2^20

RECURSIVE BitLength(_)
BitLength(n) == IF n = 0 THEN 0 ELSE 1 + BitLength(n \div 2)

\* The limbs of a number whose low limbs have grown past 2^20.
Carry(x) ==
    LET b == x[2] + x[3] \div Limb
    IN  <<x[1] + b \div Limb, b % Limb, x[3] % Limb>>

\* Rounding to the 53 significant bits of a binary64, ties to even.
RoundBinary64(x) ==
    LET drop == 40 + BitLength(x[1]) - 53
    IN  IF drop <= 0 THEN x
        ELSE LET unit == 2^drop
                 kept == x[3] \div unit
                 rest == x[3] % unit
                 up == rest * 2 > unit \/ (rest * 2 = unit /\ kept % 2 = 1)
             IN  Carry(<<x[1], x[2], (kept + (IF up THEN 1 ELSE 0)) * unit>>)

AddBinary64(x, y) == RoundBinary64(Carry(<<x[1] + y[1], x[2] + y[2], x[3] + y[3]>>))

LeBinary64(x, y) ==
    \/ x[1] < y[1]
    \/ x[1] = y[1] /\ x[2] < y[2]
    \/ x[1] = y[1] /\ x[2] = y[2] /\ x[3] <= y[3]

\* The binary64 (severity / 10.0) * 0.1 of the severities 1..10:
\* 0.010000000000000002, 0.020000000000000004, 0.03, 0.04000000000000001,
\* 0.05, 0.06, 0.06999999999999999, 0.08000000000000002,
\* 0.09000000000000001 and 0.1.
PenaltyBinary64 ==
    << <<5242, 922746, 922748>>, <<10485, 796917, 796920>>, <<15728, 671088, 671088>>,
       <<20971, 545259, 545264>>, <<26214, 419430, 419432>>, <<31457, 293601, 293600>>,
       <<36700, 167772, 167768>>, <<41943, 41943, 41952>>, <<47185, 964689, 964696>>,
       <<52428, 838860, 838864>> >>

\* The binary64 0.8 of the cap.
CapBinary64 == <<419430, 419430, 419456>>

RECURSIVE TotalPenaltyBinary64(_)
TotalPenaltyBinary64(flags) ==
    IF flags = <<>> THEN <<0, 0, 0>>
    ELSE LET flag == flags[Len(flags)]
             severity == IF "severity" \in DOMAIN flag THEN flag.severity ELSE 5
             penalty == PenaltyBinary64[severity]
         IN  AddBinary64(TotalPenaltyBinary64(SubSeq(flags, 1, Len(flags) - 1)), penalty)

_calculate_bias_penalty_binary64(bias_results) ==
    LET flags == DictGet(bias_results, "flags", <<>>)
    IN  IF flags = <<>> THEN <<0, 0, 0>>
        ELSE LET total_penalty == TotalPenaltyBinary64(flags)
             IN  IF LeBinary64(CapBinary64, total_penalty) THEN CapBinary64
                 ELSE total_penalty

_get_cultural_fit_score(country, cultural_analysis) ==
    DictGet(cultural_analysis.cultural_scores, country, Rat(1, 2))

_calculate_confidence_bonus(country, cultural_analysis) ==
    LET has_hofstede_data == country \in DOMAIN hofstede_data
        has_cultural_analysis == country \in DOMAIN cultural_analysis.cultural_scores
    IN  RAdd(IF has_hofstede_data THEN Rat(5, 100) ELSE RInt(0),
             IF has_cultural_analysis THEN Rat(5, 100) ELSE RInt(0))

\* Mutant: the bias penalty itself, not the bias-free share, earns the weight.
_calculate_country_score_penalty_credit(country, bias_results, cultural_analysis) ==
    LET bias_penalty == _calculate_bias_penalty(bias_results)
        cultural_fit_score == _get_cultural_fit_score(country, cultural_analysis)
        confidence_bonus == _calculate_confidence_bonus(country, cultural_analysis)
        weights == scoring_weights
        base_score ==
            RAdd(RAdd(RMul(cultural_fit_score, weights.cultural_fit),
                      RMul(bias_penalty, weights.bias_freedom)),
                 RMul(confidence_bonus, weights.confidence_bonus))
    IN  RMax(RInt(0), RMin(RInt(1), base_score))

\* Mutant: a flag that names a country penalises that country only.
_calculate_country_score_own_flags(country, bias_results, cultural_analysis) ==
    LET Mine(flag) == "country" \notin DOMAIN flag \/ flag.country = country
        bias_penalty ==
            _calculate_bias_penalty([flags |-> SelectSeq(bias_results.flags, Mine)])
        cultural_fit_score == _get_cultural_fit_score(country, cultural_analysis)
        confidence_bonus == _calculate_confidence_bonus(country, cultural_analysis)
        weights == scoring_weights
        base_score ==
            RAdd(RAdd(RMul(cultural_fit_score, weights.cultural_fit),
                      RMul(RSub(RInt(1), bias_penalty), weights.bias_freedom)),
                 RMul(confidence_bonus, weights.confidence_bonus))
    IN  RMax(RInt(0), RMin(RInt(1), base_score))

_calculate_country_score(country, bias_results, cultural_analysis) ==
    LET bias_penalty == _calculate_bias_penalty(bias_results)
        cultural_fit_score == _get_cultural_fit_score(country, cultural_analysis)
        confidence_bonus == _calculate_confidence_bonus(country, cultural_analysis)
        weights == scoring_weights
        base_score ==
            RAdd(RAdd(RMul(cultural_fit_score, weights.cultural_fit),
                      RMul(RSub(RInt(1), bias_penalty), weights.bias_freedom)),
                 RMul(confidence_bonus, weights.confidence_bonus))
    IN  RMax(RInt(0), RMin(RInt(1), base_score))

_assess_data_quality(country, cultural_analysis) ==
    LET q1 == IF country \in DOMAIN hofstede_data THEN Rat(4, 10) ELSE RInt(0)
        q2 == IF country \in DOMAIN cultural_analysis.cultural_scores
              THEN Rat(3, 10) ELSE RInt(0)
        q3 == IF country \in DOMAIN cultural_analysis.insights
              THEN Rat(3, 10) ELSE RInt(0)
    IN  RMin(RInt(1), RAdd(RAdd(q1, q2), q3))

\* Mutant: the two clamps are exchanged.
_calculate_confidence_interval_swapped(country, score, cultural_analysis) ==
    LET data_quality == _assess_data_quality(country, cultural_analysis)
        std_error == IF RLt(Rat(8, 10), data_quality) THEN Rat(5, 100)
                     ELSE IF RLt(Rat(6, 10), data_quality) THEN Rat(10, 100)
                     ELSE Rat(15, 100)
        margin_of_error == RMul(Rat(196, 100), std_error)
    IN  [lower_bound |-> RMin(RInt(1), RSub(score, margin_of_error)),
         upper_bound |-> RMax(RInt(0), RAdd(score, margin_of_error)),
         confidence_level |-> Rat(95, 100),
         margin_of_error |-> margin_of_error,
         data_quality |-> data_quality]

\* Mutant: a data quality of exactly 0.6 already selects the 0.10 tier.
_calculate_confidence_interval_inclusive_tier(country, score, cultural_analysis) ==
    LET data_quality == _assess_data_quality(country, cultural_analysis)
        std_error == IF RLt(Rat(8, 10), data_quality) THEN Rat(5, 100)
                     ELSE IF RLe(Rat(6, 10), data_quality) THEN Rat(10, 100)
                     ELSE Rat(15, 100)
        margin_of_error == RMul(Rat(196, 100), std_error)
    IN  [lower_bound |-> RMax(RInt(0), RSub(score, margin_of_error)),
         upper_bound |-> RMin(RInt(1), RAdd(score, margin_of_error)),
         confidence_level |-> Rat(95, 100),
         margin_of_error |-> margin_of_error,
         data_quality |-> data_quality]

_calculate_confidence_interval(country, score, cultural_analysis) ==
    LET data_quality == _assess_data_quality(country, cultural_analysis)
        std_error == IF RLt(Rat(8, 10), data_quality) THEN Rat(5, 100)
                     ELSE IF RLt(Rat(6, 10), data_quality) THEN Rat(10, 100)
                     ELSE Rat(15, 100)
        margin_of_error == RMul(Rat(196, 100), std_error)
    IN  [lower_bound |-> RMax(RInt(0), RSub(score, margin_of_error)),
         upper_bound |-> RMin(RInt(1), RAdd(score, margin_of_error)),
         confidence_level |-> Rat(95, 100),
         margin_of_error |-> margin_of_error,
         data_quality |-> data_quality]

_get_score_breakdown(country, bias_results, cultural_analysis) ==
    [cultural_fit |-> _get_cultural_fit_score(country, cultural_analysis),
     bias_penalty |-> _calculate_bias_penalty(bias_results),
     confidence_bonus |-> _calculate_confidence_bonus(country, cultural_analysis),
     data_quality |-> _assess_data_quality(country, cultural_analysis)]

\* numpy.mean: the mean of an empty list is nan (a warning, not an exception).
NaN == [num |-> 0, den |-> 0]

np_mean(scores) ==
    IF scores = <<>> THEN NaN ELSE RDiv(RSum(scores), RInt(Len(scores)))

\* Mutant: the mean is taken of an empty list too.
WithOverallScore_unguarded(results, scores) ==
    [results EXCEPT !.overall_score = np_mean(scores)]

\* calculate_alignment, after its loop: the overall score is set only when
\* the list of country scores is not empty.
WithOverallScore(results, scores) ==
    IF scores # <<>>
    THEN [results EXCEPT !.overall_score = np_mean(scores)]
    ELSE results


(***************************************************************************)
(* CulturalAnalyzer: the Dimension Aligner.  The content is modelled by    *)
(* the set of keywords that occur in it (case-insensitive substring test   *)
(* of the source), so "word in content" is membership.                     *)
(***************************************************************************)
Dimensions ==
    <<"power_distance", "individualism", "masculinity",
      "uncertainty_avoidance", "long_term_orientation", "indulgence">>

high_pd_keywords == <<"hierarchy", "authority", "boss", "leader", "executive", "management">>
low_pd_keywords == <<"equality", "peer", "team", "collaborative", "democratic", "accessible">>
individualistic_keywords == <<"individual", "personal", "self", "independence", "freedom", "choice">>
collectivistic_keywords == <<"community", "team", "together", "family", "group", "collective">>
masculine_keywords == <<"compete", "win", "achieve", "success", "performance", "ambitious">>
feminine_keywords == <<"caring", "quality", "cooperation", "relationships", "supportive", "nurturing">>
high_uai_keywords == <<"security", "certainty", "rules", "structure", "planning", "reliable">>
low_uai_keywords == <<"flexible", "adaptable", "innovation", "risk", "experiment", "spontaneous">>
long_term_keywords == <<"future", "tradition", "persistence", "patience", "investment", "sustainable">>
short_term_keywords == <<"immediate", "quick", "now", "instant", "current", "present">>
indulgent_keywords == <<"enjoy", "fun", "pleasure", "freedom", "happiness", "celebration">>
restrained_keywords == <<"control", "discipline", "modest", "serious", "formal", "conservative">>

\* sum(1 for word in keywords if word.lower() in content.lower())
RECURSIVE KeywordCount(_, _)
KeywordCount(keywords, content) ==
    IF keywords = <<>> THEN 0
    ELSE (IF Head(keywords) \in content THEN 1 ELSE 0) + KeywordCount(Tail(keywords), content)

\* Mutant: the absolute value of the distance is forgotten.
Alignment_signed(high_keywords, low_keywords, content, value) ==
    LET high_count == KeywordCount(high_keywords, content)
        low_count == KeywordCount(low_keywords, content)
        content_tendency ==
            Rat(high_count - low_count,
                IF 1 > high_count + low_count THEN 1 ELSE high_count + low_count)
        country_tendency == Rat(value - 50, 50)
        alignment ==
            RSub(RInt(1), RDiv(RSub(content_tendency, country_tendency), RInt(2)))
    IN  RMax(RInt(0), alignment)

\* The body the six _analyze_<dimension> methods share.
Alignment(high_keywords, low_keywords, content, value) ==
    LET high_count == KeywordCount(high_keywords, content)
        low_count == KeywordCount(low_keywords, content)
        content_tendency ==
            Rat(high_count - low_count,
                IF 1 > high_count + low_count THEN 1 ELSE high_count + low_count)
        country_tendency == Rat(value - 50, 50)
        alignment ==
            RSub(RInt(1), RDiv(RAbs(RSub(content_tendency, country_tendency)), RInt(2)))
    IN  RMax(RInt(0), alignment)

_analyze_power_distance(content, pdi_value) ==
    Alignment(high_pd_keywords, low_pd_keywords, content, pdi_value)

_analyze_individualism(content, idv_value) ==
    Alignment(individualistic_keywords, collectivistic_keywords, content, idv_value)

\* Mutant: the two keyword lists are passed in the wrong order.
_analyze_masculinity_swapped(content, mas_value) ==
    Alignment(feminine_keywords, masculine_keywords, content, mas_value)

_analyze_masculinity(content, mas_value) ==
    Alignment(masculine_keywords, feminine_keywords, content, mas_value)

_analyze_uncertainty_avoidance(content, uai_value) ==
    Alignment(high_uai_keywords, low_uai_keywords, content, uai_value)

_analyze_long_term_orientation(content, lto_value) ==
    Alignment(long_term_keywords, short_term_keywords, content, lto_value)

_analyze_indulgence(content, ivr_value) ==
    Alignment(indulgent_keywords, restrained_keywords, content, ivr_value)

\* _analyze_dimensions's call for one dimension.
_analyze_dimension(dimension, content, value) ==
    CASE dimension = "power_distance" -> _analyze_power_distance(content, value)
      [] dimension = "individualism" -> _analyze_individualism(content, value)
      [] dimension = "masculinity" -> _analyze_masculinity(content, value)
      [] dimension = "uncertainty_avoidance" -> _analyze_uncertainty_avoidance(content, value)
      [] dimension = "long_term_orientation" -> _analyze_long_term_orientation(content, value)
      [] dimension = "indulgence" -> _analyze_indulgence(content, value)

(***************************************************************************)
(* CulturalAnalyzer: the Cultural Fit Aggregator.                          *)
(***************************************************************************)
\* Mutant: individualism weighs 0.30.
dimension_weights_heavy ==
    [d \in {Dimensions[i] : i \in 1..Len(Dimensions)} |->
       CASE d = "power_distance" -> Rat(20, 100)
         [] d = "individualism" -> Rat(30, 100)
         [] d = "masculinity" -> Rat(15, 100)
         [] d = "uncertainty_avoidance" -> Rat(20, 100)
         [] d = "long_term_orientation" -> Rat(10, 100)
         [] d = "indulgence" -> Rat(10, 100)]

dimension_weights ==
    [d \in {Dimensions[i] : i \in 1..Len(Dimensions)} |->
       CASE d = "power_distance" -> Rat(20, 100)
         [] d = "individualism" -> Rat(25, 100)
         [] d = "masculinity" -> Rat(15, 100)
         [] d = "uncertainty_avoidance" -> Rat(20, 100)
         [] d = "long_term_orientation" -> Rat(10, 100)
         [] d = "indulgence" -> Rat(10, 100)]

\* Mutant: a dimension without a score counts as 0 instead of 0.5.
_calculate_cultural_score_zero_default(dimension_scores) ==
    IF DOMAIN dimension_scores = {} THEN RInt(0)
    ELSE RSum([i \in 1..Len(Dimensions) |->
                 RMul(DictGet(dimension_scores, Dimensions[i], RInt(0)),
                      dimension_weights[Dimensions[i]])])

_calculate_cultural_score(dimension_scores) ==
    IF DOMAIN dimension_scores = {} THEN RInt(0)
    ELSE RSum([i \in 1..Len(Dimensions) |->
                 RMul(DictGet(dimension_scores, Dimensions[i], Rat(1, 2)),
                      dimension_weights[Dimensions[i]])])

(***************************************************************************)
(* app.py: recommendation and risk thresholds.                             *)
(***************************************************************************)
\* Mutant: a score of exactly 0.8 still gets a "medium" recommendation.
Recommendation_inclusive(country, score, cultural_analysis) ==
    IF RLt(score, Rat(6, 10))
    THEN <<[country |-> country, priority |-> "high", type |-> "cultural_adaptation",
            specific_suggestions |-> DictGet(cultural_analysis.suggestions, country, <<>>)]>>
    ELSE IF RLe(score, Rat(8, 10))
    THEN <<[country |-> country, priority |-> "medium", type |-> "minor_adjustments",
            specific_suggestions |-> DictGet(cultural_analysis.suggestions, country, <<>>)]>>
    ELSE <<>>

Recommendation(country, score, cultural_analysis) ==
    IF RLt(score, Rat(6, 10))
    THEN <<[country |-> country, priority |-> "high", type |-> "cultural_adaptation",
            specific_suggestions |-> DictGet(cultural_analysis.suggestions, country, <<>>)]>>
    ELSE IF RLt(score, Rat(8, 10))
    THEN <<[country |-> country, priority |-> "medium", type |-> "minor_adjustments",
            specific_suggestions |-> DictGet(cultural_analysis.suggestions, country, <<>>)]>>
    ELSE <<>>

\* Mutant: the thresholds are strict.
_calculate_risk_level_strict(alignment_scores) ==
    LET overall_score == DictGet(alignment_scores, "overall_score", RInt(0))
    IN  IF RLt(Rat(8, 10), overall_score) THEN "low"
        ELSE IF RLt(Rat(6, 10), overall_score) THEN "medium"
        ELSE "high"

\* Mutant: a request that scored nothing carries no risk.
_calculate_risk_level_unscored_low(alignment_scores) ==
    LET overall_score == DictGet(alignment_scores, "overall_score", RInt(0))
    IN  IF overall_score = RInt(0) \/ RLe(Rat(8, 10), overall_score) THEN "low"
        ELSE IF RLe(Rat(6, 10), overall_score) THEN "medium"
        ELSE "high"

_calculate_risk_level(alignment_scores) ==
    LET overall_score == DictGet(alignment_scores, "overall_score", RInt(0))
    IN  IF RLe(Rat(8, 10), overall_score) THEN "low"
        ELSE IF RLe(Rat(6, 10), overall_score) THEN "medium"
        ELSE "high"

(***************************************************************************)
(* np.mean(country_scores) and the two comparisons of the response as the  *)
(* program's floats carry them.  A score is a binary64 in the limbs of the *)
(* bias penalty above; numpy adds fewer than eight numbers one after the   *)
(* other, rounding every partial sum, and divides the sum by their number. *)
(***************************************************************************)
\* The binary64 0.6 and 0.8 of the thresholds.
MediumBinary64 == <<314572, 838860, 838848>>

LowBinary64 == CapBinary64

\* x / n rounded to a binary64, for a quotient of at least 2^-6.
DivideBinary64(x, n) ==
    LET a == x[1] \div n
        b_ == (x[1] % n) * Limb + x[2]
        b == b_ \div n
        c_ == (b_ % n) * Limb + x[3]
        c == c_ \div n
        remainder == c_ % n
        unit == 2^(40 + BitLength(a) - 53)
        kept == c \div unit
        rest == c % unit
        up == \/ rest * 2 > unit
              \/ rest * 2 = unit /\ (remainder > 0 \/ kept % 2 = 1)
    IN  Carry(<<a, b, (kept + (IF up THEN 1 ELSE 0)) * unit>>)

RECURSIVE SumBinary64(_)
SumBinary64(scores) ==
    IF scores = <<>> THEN <<0, 0, 0>>
    ELSE AddBinary64(SumBinary64(SubSeq(scores, 1, Len(scores) - 1)), scores[Len(scores)])

MeanBinary64(scores) == DivideBinary64(SumBinary64(scores), Len(scores))

\* The priority of the recommendation _generate_recommendations emits for a
\* score, "none" when it emits none.
PriorityBinary64(score) ==
    IF ~LeBinary64(MediumBinary64, score) THEN "high"
    ELSE IF ~LeBinary64(LowBinary64, score) THEN "medium"
    ELSE "none"

_calculate_risk_level_binary64(overall_score) ==
    IF LeBinary64(LowBinary64, overall_score) THEN "low"
    ELSE IF LeBinary64(MediumBinary64, overall_score) THEN "medium"
    ELSE "high"

(***************************************************************************)
(* Values exchanged with the LLM provider.  A JSON value is tagged with    *)
(* its type: a number (a rational), a string, null or an object (a         *)
(* dictionary of JSON values).  A Python dict that is iterated is an       *)
(* ordered dictionary: the sequence of its [key, value] items in insertion *)
(* order.                                                                  *)
(***************************************************************************)
JNum(x) == [type |-> "number", number |-> x]

JStr(s) == [type |-> "string", string |-> s]

JNull == [type |-> "null"]

JObj(fields) == [type |-> "object", fields |-> fields]

Elements(seq) == {seq[i] : i \in 1..Len(seq)}

ODictKeys(od) == {od[i].key : i \in 1..Len(od)}

ODictGet(od, k, default) ==
    IF k \in ODictKeys(od)
    THEN (CHOOSE item \in Elements(od) : item.key = k).value
    ELSE default

\* d[k] = v: a key the dictionary holds keeps its position.
ODictPut(od, k, v) ==
    IF k \in ODictKeys(od)
    THEN [i \in 1..Len(od) |-> IF od[i].key = k THEN [key |-> k, value |-> v] ELSE od[i]]
    ELSE Append(od, [key |-> k, value |-> v])

(***************************************************************************)
(* BiasDetector.  A text is the sequence of its words and phrases; a       *)
(* pattern is given by the words and phrases its regular expression        *)
(* matches.                                                                *)
(***************************************************************************)
cultural_bias_patterns ==
    [stereotypes |->
       <<[pattern |-> "\\b(exotic|primitive|backward|underdeveloped)\\b",
          words |-> {"exotic", "primitive", "backward", "underdeveloped"},
          info |-> [severity |-> 8,
                    description |-> "Potentially offensive cultural descriptors"]],
         [pattern |-> "\\b(oriental|third world|native)\\b",
          words |-> {"oriental", "third world", "native"},
          info |-> [severity |-> 7,
                    description |-> "Outdated or problematic cultural terms"]],
         [pattern |-> "\\b(normal|typical|standard)\\s+(american|western|european)",
          words |-> {"normal american", "normal western", "normal european",
                     "typical american", "typical western", "typical european",
                     "standard american", "standard western", "standard european"},
          info |-> [severity |-> 6, description |-> "Western-centric assumptions"]]>>,
     representation |->
       <<[pattern |-> "\\b(everyone|all people|universal)\\b",
          words |-> {"everyone", "all people", "universal"},
          info |-> [severity |-> 4,
                    description |-> "Potentially overgeneralized statements"]],
         [pattern |-> "\\b(traditionally|culturally)\\s+(they|those people)",
          words |-> {"traditionally they", "traditionally those people",
                     "culturally they", "culturally those people"},
          info |-> [severity |-> 5,
                    description |-> "Potential cultural oversimplification"]]>>]

language_patterns ==
    [problematic |->
       <<[pattern |-> "\\b(american dream|melting pot|pull yourself up)",
          words |-> {"american dream", "melting pot", "pull yourself up"},
          info |-> [severity |-> 5,
                    description |-> "US-centric concepts that may not resonate globally",
                    cultural_context |-> "American individualism"]],
         [pattern |-> "\\b(christmas|thanksgiving|easter)\\s+(spirit|season|time)",
          words |-> {"christmas spirit", "christmas season", "christmas time",
                     "thanksgiving spirit", "thanksgiving season", "thanksgiving time",
                     "easter spirit", "easter season", "easter time"},
          info |-> [severity |-> 4, description |-> "Christian holiday assumptions",
                    cultural_context |-> "Religious assumptions"]],
         [pattern |-> "\\b(nuclear family|suburb|homeowner)",
          words |-> {"nuclear family", "suburb", "homeowner"},
          info |-> [severity |-> 3,
                    description |-> "Western family/lifestyle assumptions",
                    cultural_context |-> "Western lifestyle norms"]]>>]

\* re.findall(pattern, content, re.IGNORECASE): the matches, in text order.
RECURSIVE re_findall(_, _)
re_findall(pattern, content) ==
    IF content = <<>> THEN <<>>
    ELSE LET rest == re_findall(pattern, SubSeq(content, 1, Len(content) - 1))
             word == content[Len(content)]
         IN  IF word \in pattern.words THEN Append(rest, word) ELSE rest

MaxSeverity(flags) ==
    IF flags = <<>> THEN 0
    ELSE CHOOSE m \in {flags[i].severity : i \in 1..Len(flags)} :
           \A i \in 1..Len(flags) : flags[i].severity <= m

\* The loop of a regex sub-scan over its patterns: one flag for each pattern
\* that matches.
RECURSIVE PatternFlags(_, _, _)
PatternFlags(type, patterns, content) ==
    IF patterns = <<>> THEN <<>>
    ELSE LET rest == PatternFlags(type, SubSeq(patterns, 1, Len(patterns) - 1), content)
             p == patterns[Len(patterns)]
             matches == re_findall(p, content)
             flag == [type |-> type, pattern |-> p.pattern, matches |-> matches,
                      severity |-> p.info.severity, description |-> p.info.description]
         IN  IF matches = <<>> THEN rest
             ELSE Append(rest, IF type = "linguistic"
                               THEN flag @@ [cultural_context |-> p.info.cultural_context]
                               ELSE flag)

PatternScan(type, category, patterns, content) ==
    LET flags == PatternFlags(type, patterns, content)
    IN  [raised |-> FALSE,
         detected |-> Len(flags) > 0,
         category |-> category,
         flags |-> flags,
         patterns |-> [i \in 1..Len(flags) |-> flags[i].pattern],
         severity |-> MaxSeverity(flags)]

_detect_stereotype_bias(content) ==
    PatternScan("stereotype", "stereotype_bias", cultural_bias_patterns.stereotypes, content)

_detect_linguistic_bias(content) ==
    PatternScan("linguistic", "linguistic_bias", language_patterns.problematic, content)

_detect_representation_bias(content) ==
    PatternScan("representation", "representation_bias",
                cultural_bias_patterns.representation, content)

\* Mutant: the risk is scaled to a percentage.
_risk_to_severity_percent(risk_score) == (risk_score.num * 100) \div risk_score.den

\* Mutant: the risk is rounded to the nearest severity.
_risk_to_severity_rounded(risk_score) ==
    (2 * risk_score.num * 10 + risk_score.den) \div (2 * risk_score.den)

\* int(risk_score * 10) of a risk that is not negative.
_risk_to_severity(risk_score) == (risk_score.num * 10) \div risk_score.den

\* insights.get("assumption_risk", 0) > 0.6 raises for insights that are not
\* a dictionary (AttributeError) and for a risk that is not a number
\* (TypeError).
AssumptionRaises(insights) ==
    \/ insights.type # "object"
    \/ /\ "assumption_risk" \in DOMAIN insights.fields
       /\ insights.fields["assumption_risk"].type # "number"

assumption_risk(insights) ==
    IF "assumption_risk" \in DOMAIN insights.fields
    THEN insights.fields["assumption_risk"].number
    ELSE RInt(0)

\* The loop of _detect_cultural_assumptions over gemini_insights.items(),
\* none of which raises.
RECURSIVE AssumptionFlags(_)
AssumptionFlags(gemini_insights) ==
    IF gemini_insights = <<>> THEN <<>>
    ELSE LET rest == AssumptionFlags(SubSeq(gemini_insights, 1, Len(gemini_insights) - 1))
             item == gemini_insights[Len(gemini_insights)]
             risk == assumption_risk(item.value)
         IN  IF RLt(Rat(6, 10), risk)
             THEN Append(rest, [type |-> "cultural_assumption",
                                country |-> item.key,
                                risk_score |-> risk,
                                description |->
                                    DictGet(item.value.fields, "assumption_description",
                                            JStr("")),
                                severity |-> _risk_to_severity(risk)])
             ELSE rest

_detect_cultural_assumptions(content, gemini_analysis) ==
    LET gemini_insights == DictGet(gemini_analysis, "cultural_insights", <<>>)
    IN  IF \E i \in 1..Len(gemini_insights) : AssumptionRaises(gemini_insights[i].value)
        THEN [raised |-> TRUE]
        ELSE LET flags == AssumptionFlags(gemini_insights)
             IN  [raised |-> FALSE,
                  detected |-> Len(flags) > 0,
                  category |-> "cultural_assumption",
                  flags |-> flags,
                  patterns |-> <<>>,
                  severity |-> MaxSeverity(flags)]

_calculate_severity_scores(all_biases) ==
    LET detected == {i \in 1..Len(all_biases) : all_biases[i].detected}
    IN  [category \in {all_biases[i].category : i \in detected} |->
           LET last == CHOOSE i \in detected :
                          /\ all_biases[i].category = category
                          /\ \A j \in detected :
                               all_biases[j].category = category => j <= i
           IN  Rat(all_biases[last].severity, 10)]

\* Mutant: the category bonus is not capped at 0.1.
_calculate_confidence_uncapped_bonus(bias_results) ==
    IF bias_results.flags = <<>> THEN Rat(95, 100)
    ELSE LET num_flags == Len(bias_results.flags)
             num_categories == Cardinality(Elements(bias_results.bias_categories))
             base_confidence == RMin(RAdd(Rat(5, 10), RMul(RInt(num_flags), Rat(1, 10))),
                                     Rat(9, 10))
             category_bonus == RMul(RInt(num_categories), Rat(5, 100))
         IN  RMin(RAdd(base_confidence, category_bonus), Rat(95, 100))

_calculate_confidence(bias_results) ==
    IF bias_results.flags = <<>> THEN Rat(95, 100)
    ELSE LET num_flags == Len(bias_results.flags)
             num_categories == Cardinality(Elements(bias_results.bias_categories))
             base_confidence == RMin(RAdd(Rat(5, 10), RMul(RInt(num_flags), Rat(1, 10))),
                                     Rat(9, 10))
             category_bonus == RMin(RMul(RInt(num_categories), Rat(5, 100)), Rat(1, 10))
         IN  RMin(RAdd(base_confidence, category_bonus), Rat(95, 100))

\* The "for bias_result in all_biases" loop of detect_bias.
RECURSIVE Compile(_)
Compile(all_biases) ==
    IF all_biases = <<>>
    THEN [flags |-> <<>>, pattern_matches |-> <<>>, bias_categories |-> <<>>]
    ELSE LET rest == Compile(SubSeq(all_biases, 1, Len(all_biases) - 1))
             bias_result == all_biases[Len(all_biases)]
         IN  IF bias_result.detected
             THEN [flags |-> rest.flags \o bias_result.flags,
                   pattern_matches |-> rest.pattern_matches \o bias_result.patterns,
                   bias_categories |-> Append(rest.bias_categories, bias_result.category)]
             ELSE rest

\* Mutant: the representation flags are compiled before the others.
detect_bias_representation_first(content, gemini_analysis) ==
    LET stereotype_bias == _detect_stereotype_bias(content)
        linguistic_bias == _detect_linguistic_bias(content)
        cultural_assumption_bias == _detect_cultural_assumptions(content, gemini_analysis)
        representation_bias == _detect_representation_bias(content)
    IN  IF cultural_assumption_bias.raised
        THEN [error |-> "exception", flags |-> <<>>, confidence_score |-> RInt(0)]
        ELSE LET all_biases == <<representation_bias, stereotype_bias, linguistic_bias,
                                 cultural_assumption_bias>>
                 compiled == Compile(all_biases)
             IN  [flags |-> compiled.flags,
                  severity_scores |-> _calculate_severity_scores(all_biases),
                  pattern_matches |-> compiled.pattern_matches,
                  confidence_score |-> _calculate_confidence(compiled),
                  bias_categories |-> compiled.bias_categories]

\* detect_bias: an exception of a sub-scan is caught by the method's one
\* try block, which returns no flags at all.
detect_bias(content, gemini_analysis) ==
    LET stereotype_bias == _detect_stereotype_bias(content)
        linguistic_bias == _detect_linguistic_bias(content)
        cultural_assumption_bias == _detect_cultural_assumptions(content, gemini_analysis)
        representation_bias == _detect_representation_bias(content)
    IN  IF cultural_assumption_bias.raised
        THEN [error |-> "exception", flags |-> <<>>, confidence_score |-> RInt(0)]
        ELSE LET all_biases == <<stereotype_bias, linguistic_bias, cultural_assumption_bias,
                                 representation_bias>>
                 compiled == Compile(all_biases)
             IN  [flags |-> compiled.flags,
                  severity_scores |-> _calculate_severity_scores(all_biases),
                  pattern_matches |-> compiled.pattern_matches,
                  confidence_score |-> _calculate_confidence(compiled),
                  bias_categories |-> compiled.bias_categories]

(***************************************************************************)
(* GeminiClient.  The provider's reply to one prompt is one of:            *)
(*   [kind |-> "raise"]: generate_content (or response.text) raises;       *)
(*   [kind |-> "json", value |-> v]: the text holds a ```json block that   *)
(*       json.loads turns into the JSON value v;                           *)
(*   [kind |-> "bad_json", lines |-> ls]: the text holds a ```json block   *)
(*       that json.loads rejects, next to the lines ls;                    *)
(*   [kind |-> "text", lines |-> ls]: the text holds no ```json block; a   *)
(*       line is [section, colon, key, value, number]: the section word    *)
(*       it contains ("none" without one), whether it contains ":", the    *)
(*       key and the value around the first ":", and the first number in   *)
(*       the value (NaN without one).                                      *)
(***************************************************************************)
\* Mutant: the default record reports a risk above the detector's threshold.
_create_default_response_risky(country) ==
    JObj([insights |->
            JObj([cultural_fit |-> JStr("Unable to analyze cultural fit"),
                  assumption_risk |-> JNum(Rat(7, 10)),
                  assumption_description |-> JStr("Analysis unavailable")]),
          sentiment_score |-> JNum(Rat(5, 10)),
          risk_assessment |->
            JObj([overall_risk |-> JStr("medium"),
                  specific_concerns |-> JStr("Analysis unavailable")])])

_create_default_response(country) ==
    JObj([insights |->
            JObj([cultural_fit |-> JStr("Unable to analyze cultural fit"),
                  assumption_risk |-> JNum(Rat(5, 10)),
                  assumption_description |-> JStr("Analysis unavailable")]),
          sentiment_score |-> JNum(Rat(5, 10)),
          risk_assessment |->
            JObj([overall_risk |-> JStr("medium"),
                  specific_concerns |-> JStr("Analysis unavailable")])])

\* The loop of _manual_parse_response over the lines: st is [section,
\* insights, sentiment_score] after the lines before the last one.
RECURSIVE ManualParseLines(_)
ManualParseLines(lines) ==
    IF lines = <<>>
    THEN [section |-> "none", insights |-> EmptyDict, sentiment_score |-> Rat(5, 10)]
    ELSE LET st == ManualParseLines(SubSeq(lines, 1, Len(lines) - 1))
             line == lines[Len(lines)]
             current_section == IF line.section # "none" THEN line.section ELSE st.section
         IN  IF current_section # "none" /\ line.colon
             THEN [section |-> current_section,
                   insights |-> DictPut(st.insights, line.key, JStr(line.value)),
                   sentiment_score |->
                       IF current_section = "sentiment" /\ line.number # NaN
                       THEN IF RLt(RInt(1), line.number)
                            THEN RDiv(line.number, RInt(10))
                            ELSE line.number
                       ELSE st.sentiment_score]
             ELSE [st EXCEPT !.section = current_section]

_manual_parse_response(response_text, country) ==
    LET st == ManualParseLines(response_text.lines)
    IN  JObj([insights |-> JObj(st.insights),
              sentiment_score |-> JNum(st.sentiment_score),
              risk_assessment |-> JObj(EmptyDict)])

_parse_gemini_response(response_text, country) ==
    IF response_text.kind = "json" THEN response_text.value
    ELSE IF response_text.kind = "bad_json" THEN _create_default_response(country)
    ELSE _manual_parse_response(response_text, country)

\* analyze_cultural_sentiment before its loop, and what its except block
\* returns.
InitialSentiment ==
    [cultural_insights |-> <<>>, sentiment_scores |-> EmptyDict,
     risk_assessments |-> EmptyDict, timestamp |-> "now"]

FailedSentiment ==
    [error |-> "exception", cultural_insights |-> <<>>, sentiment_scores |-> EmptyDict,
     risk_assessments |-> EmptyDict]

\* The provider's reply makes the loop body raise: the call itself, or
\* parsed_response.get of a parsed value that is not a dictionary.
ReplyRaises(reply, country) ==
    IF reply.kind = "raise" THEN TRUE
    ELSE _parse_gemini_response(reply, country).type # "object"

\* Mutant: the insights are not keyed by country, each reply replaces the
\* insights stored before it.
StoreReply_unkeyed(analysis_results, country, reply) ==
    LET parsed_response == _parse_gemini_response(reply, country).fields
    IN  [analysis_results EXCEPT
           !.cultural_insights =
               ODictPut(<<>>, country, DictGet(parsed_response, "insights", JObj(EmptyDict))),
           !.sentiment_scores =
               DictPut(@, country, DictGet(parsed_response, "sentiment_score",
                                           JNum(Rat(5, 10)))),
           !.risk_assessments =
               DictPut(@, country, DictGet(parsed_response, "risk_assessment",
                                           JObj(EmptyDict)))]

\* The loop body of analyze_cultural_sentiment for a reply that does not
\* make it raise.
StoreReply(analysis_results, country, reply) ==
    LET parsed_response == _parse_gemini_response(reply, country).fields
    IN  [analysis_results EXCEPT
           !.cultural_insights =
               ODictPut(@, country, DictGet(parsed_response, "insights", JObj(EmptyDict))),
           !.sentiment_scores =
               DictPut(@, country, DictGet(parsed_response, "sentiment_score",
                                           JNum(Rat(5, 10)))),
           !.risk_assessments =
               DictPut(@, country, DictGet(parsed_response, "risk_assessment",
                                           JObj(EmptyDict)))]

(***************************************************************************)
(* CulturalAnalyzer: analyze_cultural_fit.                                 *)
(***************************************************************************)
\* The keywords of the six dimensions that occur in a word or phrase of the
\* bias patterns ("word.lower() in content.lower()" is a substring test);
\* every other word of a text is a keyword or holds none.
SubstringKeywords(word) ==
    CASE word \in {"traditionally they", "traditionally those people"} -> {"tradition"}
      [] word = "pull yourself up" -> {"self"}
      [] word = "nuclear family" -> {"family"}
      [] OTHER -> {word}

\* The words of a text that the keyword tests can find in it.
ContentKeywords(content) == UNION {SubstringKeywords(content[i]) : i \in 1..Len(content)}

_dimension_code_map ==
    [power_distance |-> "PDI", individualism |-> "IDV", masculinity |-> "MAS",
     uncertainty_avoidance |-> "UAI", long_term_orientation |-> "LTO", indulgence |-> "IVR"]

_analyze_dimensions(content, dimensions, country) ==
    [dimension \in Elements(Dimensions) |->
       _analyze_dimension(dimension, ContentKeywords(content),
                          DictGet(dimensions, _dimension_code_map[dimension], 50))]

suggestions_map ==
    [power_distance |->
       [high |-> "Consider emphasizing hierarchy, authority, and formal structures",
        low |-> "Focus on equality, accessibility, and collaborative approaches"],
     individualism |->
       [high |-> "Highlight personal choice, individual benefits, and self-expression",
        low |-> "Emphasize community, family, and collective benefits"],
     masculinity |->
       [high |-> "Focus on achievement, competition, and performance metrics",
        low |-> "Emphasize cooperation, quality of life, and relationships"],
     uncertainty_avoidance |->
       [high |-> "Provide security, guarantees, and detailed information",
        low |-> "Embrace flexibility, innovation, and risk-taking"],
     long_term_orientation |->
       [high |-> "Emphasize tradition, patience, and long-term benefits",
        low |-> "Focus on immediate results and current trends"],
     indulgence |->
       [high |-> "Highlight enjoyment, freedom, and positive emotions",
        low |-> "Emphasize control, modesty, and serious benefits"]]

_get_country_tendency(dimension, country) ==
    LET dimensions == DictGet(analyzer_hofstede_data, country, EmptyDict)
        value == DictGet(dimensions, DictGet(_dimension_code_map, dimension, dimension), 50)
    IN  IF value > 50 THEN "high" ELSE "low"

_get_dimension_suggestion(dimension, country, industry) ==
    LET dimension_suggestions == DictGet(suggestions_map, dimension, EmptyDict)
        country_tendency == _get_country_tendency(dimension, country)
    IN  DictGet(dimension_suggestions, country_tendency, "Adjust alignment")

\* Mutant: a score of exactly 0.6 earns a suggestion too.
RECURSIVE SuggestionsUpTo_inclusive(_, _, _, _)
SuggestionsUpTo_inclusive(n, scores, country, industry) ==
    IF n = 0 THEN <<>>
    ELSE LET rest == SuggestionsUpTo_inclusive(n - 1, scores, country, industry)
             dimension == Dimensions[n]
         IN  IF dimension \in DOMAIN scores /\ RLe(scores[dimension], Rat(6, 10))
             THEN Append(rest, _get_dimension_suggestion(dimension, country, industry))
             ELSE rest

\* The loop of _generate_suggestions over the first n dimensions of scores,
\* which holds its dimensions in the order _analyze_dimensions stores them.
RECURSIVE SuggestionsUpTo(_, _, _, _)
SuggestionsUpTo(n, scores, country, industry) ==
    IF n = 0 THEN <<>>
    ELSE LET rest == SuggestionsUpTo(n - 1, scores, country, industry)
             dimension == Dimensions[n]
         IN  IF dimension \in DOMAIN scores /\ RLt(scores[dimension], Rat(6, 10))
             THEN Append(rest, _get_dimension_suggestion(dimension, country, industry))
             ELSE rest

_generate_suggestions(scores, country, industry) ==
    SuggestionsUpTo(Len(Dimensions), scores, country, industry)

DimensionCodes == <<"PDI", "IDV", "MAS", "UAI", "LTO", "IVR">>

RECURSIVE NotesUpTo(_, _)
NotesUpTo(n, dimensions) ==
    IF n = 0 THEN <<>>
    ELSE LET rest == NotesUpTo(n - 1, dimensions)
             dim_code == DimensionCodes[n]
         IN  IF dim_code \notin DOMAIN dimensions THEN rest
             ELSE IF dimensions[dim_code] > 80
             THEN Append(rest, [note |-> "Very high", dim_code |-> dim_code])
             ELSE IF dimensions[dim_code] < 20
             THEN Append(rest, [note |-> "Very low", dim_code |-> dim_code])
             ELSE rest

_get_cultural_notes(country, dimensions) == NotesUpTo(Len(DimensionCodes), dimensions)

\* max(scores.keys(), key=...) and min(...): the first dimension, in the
\* order of the dictionary, with the extreme score.
StrongestDimension(scores) ==
    LET present == {i \in 1..Len(Dimensions) : Dimensions[i] \in DOMAIN scores}
        best == {i \in present :
                   \A j \in present : RLe(scores[Dimensions[j]], scores[Dimensions[i]])}
    IN  Dimensions[CHOOSE i \in best : \A j \in best : i <= j]

WeakestDimension(scores) ==
    LET present == {i \in 1..Len(Dimensions) : Dimensions[i] \in DOMAIN scores}
        worst == {i \in present :
                    \A j \in present : RLe(scores[Dimensions[i]], scores[Dimensions[j]])}
    IN  Dimensions[CHOOSE i \in worst : \A j \in worst : i <= j]

\* Mutant: the labels are given from 0.8 and from 0.6 on.
_generate_insights_inclusive(content, dimensions, scores, country) ==
    LET overall_score == _calculate_cultural_score(scores)
    IN  [alignment_summary |->
             IF DOMAIN scores = {} THEN ""
             ELSE IF RLe(Rat(8, 10), overall_score) THEN "Excellent cultural alignment"
             ELSE IF RLe(Rat(6, 10), overall_score) THEN "Good cultural alignment"
             ELSE "Cultural misalignment detected",
         strongest_alignment |->
             IF DOMAIN scores = {} THEN "" ELSE StrongestDimension(scores),
         weakest_alignment |->
             IF DOMAIN scores = {} THEN "" ELSE WeakestDimension(scores),
         cultural_notes |-> _get_cultural_notes(country, dimensions)]

\* strongest_alignment and weakest_alignment hold the dimension; the text of
\* the source also holds its score, formatted to two decimals.
_generate_insights(content, dimensions, scores, country) ==
    LET overall_score == _calculate_cultural_score(scores)
    IN  [alignment_summary |->
             IF DOMAIN scores = {} THEN ""
             ELSE IF RLt(Rat(8, 10), overall_score) THEN "Excellent cultural alignment"
             ELSE IF RLt(Rat(6, 10), overall_score) THEN "Good cultural alignment"
             ELSE "Cultural misalignment detected",
         strongest_alignment |->
             IF DOMAIN scores = {} THEN "" ELSE StrongestDimension(scores),
         weakest_alignment |->
             IF DOMAIN scores = {} THEN "" ELSE WeakestDimension(scores),
         cultural_notes |-> _get_cultural_notes(country, dimensions)]

\* analyze_cultural_fit before its loop.
InitialAnalysis(industry) ==
    [cultural_scores |-> EmptyDict, dimension_analysis |-> EmptyDict,
     insights |-> EmptyDict, suggestions |-> EmptyDict, industry_context |-> industry]

\* Mutant: a country without cultural data is analysed with every dimension
\* at the neutral value 50.
AnalyzeCountryFit_neutral_profile(analysis_results, content, country, industry) ==
    LET dimensions == DictGet(analyzer_hofstede_data, country, EmptyDict)
        dimension_scores == _analyze_dimensions(content, dimensions, country)
    IN  [analysis_results EXCEPT
           !.cultural_scores = DictPut(@, country, _calculate_cultural_score(dimension_scores)),
           !.dimension_analysis = DictPut(@, country, dimension_scores),
           !.insights = DictPut(@, country,
                                _generate_insights(content, dimensions, dimension_scores,
                                                   country)),
           !.suggestions = DictPut(@, country,
                                   _generate_suggestions(dimension_scores, country, industry))]

\* The loop body of analyze_cultural_fit.
AnalyzeCountryFit(analysis_results, content, country, industry) ==
    LET dimensions == DictGet(analyzer_hofstede_data, country, EmptyDict)
        dimension_scores == _analyze_dimensions(content, dimensions, country)
    IN  IF DOMAIN dimensions = {} THEN analysis_results
        ELSE [analysis_results EXCEPT
                !.cultural_scores =
                    DictPut(@, country, _calculate_cultural_score(dimension_scores)),
                !.dimension_analysis = DictPut(@, country, dimension_scores),
                !.insights = DictPut(@, country,
                                     _generate_insights(content, dimensions, dimension_scores,
                                                        country)),
                !.suggestions =
                    DictPut(@, country,
                            _generate_suggestions(dimension_scores, country, industry))]

(***************************************************************************)
(* State.                                                                  *)
(***************************************************************************)
VARIABLES
    pc,                 \* position in the request / name of the harness
    target_countries,   \* the requested country list
    bias_results,       \* BiasDetector.detect_bias's result
    cultural_analysis,  \* CulturalAnalyzer.analyze_cultural_fit's result
    alignment_results,  \* calculate_alignment's result dictionary
    country_scores,     \* calculate_alignment's local list of scores
    idx,                \* position of the running for-loop in target_countries
    recommendations,    \* _generate_recommendations's list
    risk_level,         \* the response's risk_level
    call,               \* the function call under test (function harness)
    ret,                \* its return value
    campaign_content,   \* the request's text
    provider,           \* the LLM provider: its reply to the prompt of a country
    gemini_analysis,    \* GeminiClient.analyze_cultural_sentiment's result
    response            \* the response of analyze_campaign

vars == <<pc, target_countries, bias_results, cultural_analysis, alignment_results,
          country_scores, idx, recommendations, risk_level, call, ret,
          campaign_content, provider, gemini_analysis, response>>

\* The state of steps 1 to 3 of analyze_campaign, and its response.
Request == <<campaign_content, provider, gemini_analysis, response>>

NoResponse == [status |-> 0]

NoCall == [fn |-> "none"]

(***************************************************************************)
(* Inputs of the scoring pipeline.                                         *)
(***************************************************************************)
ModelCountries == {"US", "XX"}

ModelFlags ==
    {[type |-> "stereotype", severity |-> 8],
     [type |-> "cultural_assumption", country |-> "US", severity |-> 6]}

FitGrid == {Rat(1, 5), Rat(7, 10), Rat(4, 5)}

ModelSuggestions ==
    [c \in ModelCountries |->
       IF c = "US" THEN <<"Focus on equality, accessibility, and collaborative approaches">>
       ELSE <<"Adjust power_distance alignment for XX">>]

PartialMaps(K, V) == UNION {[S -> V] : S \in SUBSET K}

\* The analyzer stores a country's insights and suggestions together, its
\* cultural score is drawn independently of them.
ModelAnalyses ==
    {[cultural_scores |-> cs, insights |-> [c \in ins |-> "insights"],
      suggestions |-> [c \in ins |-> ModelSuggestions[c]]] :
        cs \in PartialMaps(ModelCountries, FitGrid),
        ins \in SUBSET ModelCountries}

(***************************************************************************)
(* The scoring pipeline of analyze_campaign: steps 4 and 5 and the         *)
(* response's risk level.                                                  *)
(***************************************************************************)
Init ==
    /\ pc = "calculate_alignment"
    /\ target_countries \in BoundedSeq(ModelCountries, MaxCountries)
    /\ bias_results \in {[flags |-> f] : f \in BoundedSeq(ModelFlags, MaxFlags)}
    /\ cultural_analysis \in ModelAnalyses
    /\ alignment_results = [overall_score |-> RInt(0), country_scores |-> EmptyDict,
                            confidence |-> EmptyDict, score_breakdown |-> EmptyDict]
    /\ country_scores = <<>>
    /\ idx = 1
    /\ recommendations = <<>>
    /\ risk_level = "unset"
    /\ call = NoCall
    /\ ret = NoCall
    /\ campaign_content = <<>>
    /\ provider = EmptyDict
    /\ gemini_analysis = InitialSentiment
    /\ response = NoResponse

\* One iteration of calculate_alignment's loop over target_countries.
ScoreCountry ==
    /\ pc = "calculate_alignment"
    /\ idx <= Len(target_countries)
    /\ LET country == target_countries[idx]
           country_score == _calculate_country_score(country, bias_results, cultural_analysis)
           confidence_interval ==
               _calculate_confidence_interval(country, country_score, cultural_analysis)
       IN  /\ alignment_results' =
                [alignment_results EXCEPT
                   !.country_scores = DictPut(@, country, country_score),
                   !.confidence = DictPut(@, country, confidence_interval),
                   !.score_breakdown =
                       DictPut(@, country,
                               _get_score_breakdown(country, bias_results, cultural_analysis))]
           /\ country_scores' = Append(country_scores, country_score)
    /\ idx' = idx + 1
    /\ UNCHANGED <<pc, target_countries, bias_results, cultural_analysis,
                   recommendations, risk_level, call, ret>>
    /\ UNCHANGED Request

\* The end of calculate_alignment: the overall score, and the return.
OverallScore ==
    /\ pc = "calculate_alignment"
    /\ idx > Len(target_countries)
    /\ alignment_results' = WithOverallScore(alignment_results, country_scores)
    /\ pc' = "_generate_recommendations"
    /\ idx' = 1
    /\ UNCHANGED <<target_countries, bias_results, cultural_analysis, country_scores,
                   recommendations, risk_level, call, ret>>
    /\ UNCHANGED Request

\* One iteration of _generate_recommendations's loop over target_countries.
Recommend ==
    /\ pc = "_generate_recommendations"
    /\ idx <= Len(target_countries)
    /\ LET country == target_countries[idx]
           score == DictGet(alignment_results.country_scores, country, RInt(0))
       IN  recommendations' =
               recommendations \o Recommendation(country, score, cultural_analysis)
    /\ idx' = idx + 1
    /\ UNCHANGED <<pc, target_countries, bias_results, cultural_analysis,
                   alignment_results, country_scores, risk_level, call, ret>>
    /\ UNCHANGED Request

\* The response is compiled: risk_level from the alignment scores.
RiskLevel ==
    /\ pc = "_generate_recommendations"
    /\ idx > Len(target_countries)
    /\ risk_level' = _calculate_risk_level(alignment_results)
    /\ pc' = "response"
    /\ UNCHANGED <<target_countries, bias_results, cultural_analysis, alignment_results,
                   country_scores, idx, recommendations, call, ret>>
    /\ UNCHANGED Request

Next == ScoreCountry \/ OverallScore \/ Recommend \/ RiskLevel

Spec == Init /\ [][Next]_vars

(***************************************************************************)
(* analyze_campaign from its first step (specification PipeSpec): the LLM  *)
(* provider is asked about each country, the bias detector and the         *)
(* cultural analyzer run on the text, and the scoring pipeline above       *)
(* follows with what they return.                                          *)
(***************************************************************************)
PipeContents ==
    {<<>>, <<"hierarchy", "boss">>, <<"exotic", "everyone">>, <<"native">>}

\* A line "Assumption risk: 0.8" of a reply that holds no JSON.
RiskLine ==
    [section |-> "risk", colon |-> TRUE, key |-> "assumption_risk", value |-> "0.8",
     number |-> Rat(8, 10)]

JsonReply(risk) ==
    [kind |-> "json",
     value |-> JObj([insights |->
                       JObj([assumption_risk |-> risk,
                             assumption_description |-> JStr("assumes shared values")]),
                     sentiment_score |-> JNum(Rat(7, 10))])]

PipeReplies ==
    {[kind |-> "raise"],
     [kind |-> "bad_json", lines |-> <<RiskLine>>],
     [kind |-> "text", lines |-> <<RiskLine>>],
     [kind |-> "json", value |-> JObj(EmptyDict)],
     JsonReply(JStr("high")),
     JsonReply(JNum(Rat(6, 10))),
     JsonReply(JNum(Rat(67, 100))),
     JsonReply(JNum(Rat(75, 100)))}

PipeInit ==
    /\ pc = "analyze_cultural_sentiment"
    /\ campaign_content \in PipeContents
    /\ target_countries \in BoundedSeq(ModelCountries, MaxCountries)
    /\ provider \in [ModelCountries -> PipeReplies]
    /\ gemini_analysis = InitialSentiment
    /\ bias_results = [flags |-> <<>>]
    /\ cultural_analysis = InitialAnalysis("general")
    /\ alignment_results = [overall_score |-> RInt(0), country_scores |-> EmptyDict,
                            confidence |-> EmptyDict, score_breakdown |-> EmptyDict]
    /\ country_scores = <<>>
    /\ idx = 1
    /\ recommendations = <<>>
    /\ risk_level = "unset"
    /\ response = NoResponse
    /\ call = NoCall
    /\ ret = NoCall

\* One iteration of analyze_cultural_sentiment's loop: the reply is parsed
\* and stored under the country.
CallProvider ==
    /\ pc = "analyze_cultural_sentiment"
    /\ idx <= Len(target_countries)
    /\ LET country == target_countries[idx]
       IN  /\ ~ReplyRaises(provider[country], country)
           /\ gemini_analysis' = StoreReply(gemini_analysis, country, provider[country])
    /\ idx' = idx + 1
    /\ UNCHANGED <<pc, target_countries, bias_results, cultural_analysis, alignment_results,
                   country_scores, recommendations, risk_level, call, ret,
                   campaign_content, provider, response>>

\* Mutant: the except block keeps what the earlier iterations stored.
ProviderRaises_keeps_stored ==
    /\ pc = "analyze_cultural_sentiment"
    /\ idx <= Len(target_countries)
    /\ ReplyRaises(provider[target_countries[idx]], target_countries[idx])
    /\ gemini_analysis' =
         [error |-> "exception",
          cultural_insights |-> gemini_analysis.cultural_insights,
          sentiment_scores |-> gemini_analysis.sentiment_scores,
          risk_assessments |-> gemini_analysis.risk_assessments]
    /\ pc' = "detect_bias"
    /\ idx' = 1
    /\ UNCHANGED <<target_countries, bias_results, cultural_analysis, alignment_results,
                   country_scores, recommendations, risk_level, call, ret,
                   campaign_content, provider, response>>

\* The iteration raises: the except block returns empty results.
ProviderRaises ==
    /\ pc = "analyze_cultural_sentiment"
    /\ idx <= Len(target_countries)
    /\ ReplyRaises(provider[target_countries[idx]], target_countries[idx])
    /\ gemini_analysis' = FailedSentiment
    /\ pc' = "detect_bias"
    /\ idx' = 1
    /\ UNCHANGED <<target_countries, bias_results, cultural_analysis, alignment_results,
                   country_scores, recommendations, risk_level, call, ret,
                   campaign_content, provider, response>>

SentimentDone ==
    /\ pc = "analyze_cultural_sentiment"
    /\ idx > Len(target_countries)
    /\ pc' = "detect_bias"
    /\ idx' = 1
    /\ UNCHANGED <<target_countries, bias_results, cultural_analysis, alignment_results,
                   country_scores, recommendations, risk_level, call, ret,
                   campaign_content, provider, gemini_analysis, response>>

\* Step 2: bias_detector.detect_bias.
DetectBias ==
    /\ pc = "detect_bias"
    /\ bias_results' = detect_bias(campaign_content, gemini_analysis)
    /\ pc' = "analyze_cultural_fit"
    /\ UNCHANGED <<target_countries, cultural_analysis, alignment_results, country_scores,
                   idx, recommendations, risk_level, call, ret,
                   campaign_content, provider, gemini_analysis, response>>

\* One iteration of analyze_cultural_fit's loop.
AnalyzeCountry ==
    /\ pc = "analyze_cultural_fit"
    /\ idx <= Len(target_countries)
    /\ cultural_analysis' = AnalyzeCountryFit(cultural_analysis, campaign_content,
                                              target_countries[idx], "general")
    /\ idx' = idx + 1
    /\ UNCHANGED <<pc, target_countries, bias_results, alignment_results, country_scores,
                   recommendations, risk_level, call, ret,
                   campaign_content, provider, gemini_analysis, response>>

AnalyzeDone ==
    /\ pc = "analyze_cultural_fit"
    /\ idx > Len(target_countries)
    /\ pc' = "calculate_alignment"
    /\ idx' = 1
    /\ UNCHANGED <<target_countries, bias_results, cultural_analysis, alignment_results,
                   country_scores, recommendations, risk_level, call, ret,
                   campaign_content, provider, gemini_analysis, response>>

\* The response is returned.
Respond ==
    /\ pc = "response"
    /\ response' =
         [status |-> 200,
          overall_score |-> DictGet(alignment_results, "overall_score", RInt(0)),
          country_scores |-> DictGet(alignment_results, "country_scores", EmptyDict),
          bias_flags |-> DictGet(bias_results, "flags", <<>>),
          cultural_insights |-> DictGet(cultural_analysis, "insights", EmptyDict),
          recommendations |-> recommendations,
          risk_level |-> risk_level,
          confidence_intervals |-> DictGet(alignment_results, "confidence", EmptyDict)]
    /\ pc' = "done"
    /\ UNCHANGED <<target_countries, bias_results, cultural_analysis, alignment_results,
                   country_scores, idx, recommendations, risk_level, call, ret,
                   campaign_content, provider, gemini_analysis>>

PipeNext ==
    \/ CallProvider
    \/ ProviderRaises
    \/ SentimentDone
    \/ DetectBias
    \/ AnalyzeCountry
    \/ AnalyzeDone
    \/ ScoreCountry
    \/ OverallScore
    \/ Recommend
    \/ RiskLevel
    \/ Respond

PipeSpec == PipeInit /\ [][PipeNext]_vars



(***************************************************************************)
(* Claims about the scoring pipeline (specification Spec).                 *)
(***************************************************************************)
Clamp01(x) == IF RLt(x, RInt(0)) THEN RInt(0) ELSE IF RLt(RInt(1), x) THEN RInt(1) ELSE x

\* The number of positions of target_countries calculate_alignment has scored.
Scored == IF pc = "calculate_alignment" THEN idx - 1 ELSE Len(target_countries)

FlagSeverities == [j \in 1..Len(bias_results.flags) |-> bias_results.flags[j].severity]

\* C1: every scored country's stored score is
\* clamp(culturalFit*0.70 + (1 - biasPenalty)*0.25 + confidenceBonus*0.05, 0, 1)
\* of the values its score_breakdown reports; one flag of severity 8 with
\* culturalFit 0.7 and confidenceBonus 0.10 gives biasPenalty 0.08 and score 0.725.
C1_ScoreFormula ==
    /\ DOMAIN alignment_results.country_scores = {target_countries[i] : i \in 1..Scored}
    /\ DOMAIN alignment_results.score_breakdown = DOMAIN alignment_results.country_scores
    /\ \A c \in DOMAIN alignment_results.country_scores :
         LET b == alignment_results.score_breakdown[c]
             score == alignment_results.country_scores[c]
         IN  /\ score = Clamp01(RAdd(RAdd(RMul(b.cultural_fit, Rat(70, 100)),
                                          RMul(RSub(RInt(1), b.bias_penalty), Rat(25, 100))),
                                     RMul(b.confidence_bonus, Rat(5, 100))))
             /\ (/\ FlagSeverities = <<8>>
                 /\ b.cultural_fit = Rat(7, 10)
                 /\ b.confidence_bonus = Rat(10, 100))
                => (b.bias_penalty = Rat(8, 100) /\ score = Rat(725, 1000))

C1_Witness ==
    /\ FlagSeverities = <<8>>
    /\ "US" \in DOMAIN alignment_results.country_scores
    /\ alignment_results.score_breakdown["US"].cultural_fit = Rat(7, 10)
    /\ alignment_results.score_breakdown["US"].confidence_bonus = Rat(10, 100)
    /\ alignment_results.country_scores["US"] = Rat(725, 1000)

\* C3: once calculate_alignment has returned, overall_score is the arithmetic
\* mean of the final scores of the requested countries (one term per entry of
\* the list); for an empty list it is 0.0, and no error is reported.
C3_OverallMean ==
    pc \in {"_generate_recommendations", "response"} =>
      /\ "error" \notin DOMAIN alignment_results
      /\ IF target_countries = <<>>
         THEN alignment_results.overall_score = RInt(0)
         ELSE RMul(alignment_results.overall_score, RInt(Len(target_countries)))
                = RSum([i \in 1..Len(target_countries) |->
                          alignment_results.country_scores[target_countries[i]]])

C3_Witness ==
    /\ pc = "response"
    /\ target_countries = <<"US", "XX">>
    /\ alignment_results.country_scores["US"] # alignment_results.country_scores["XX"]
    /\ RLt(alignment_results.country_scores["XX"], alignment_results.overall_score)
    /\ RLt(alignment_results.overall_score, alignment_results.country_scores["US"])

\* A country's final score as _generate_recommendations reads it.
FinalScore(c) == DictGet(alignment_results.country_scores, c, RInt(0))

RecPositions ==
    {i \in 1..Len(target_countries) : RLt(FinalScore(target_countries[i]), Rat(8, 10))}

RecPosition(k) ==
    CHOOSE i \in RecPositions : Cardinality({j \in RecPositions : j <= i}) = k

\* C4: the recommendations follow the requested-country order: one per entry
\* whose final score is below 0.8 ("high"/"cultural_adaptation" below 0.6,
\* "medium"/"minor_adjustments" from 0.6), none for a score of 0.8 or more,
\* each with the country's code and its suggestion list (empty if none).
C4_Recommendations ==
    pc = "response" =>
      /\ Len(recommendations) = Cardinality(RecPositions)
      /\ \A k \in 1..Len(recommendations) :
           LET c == target_countries[RecPosition(k)]
               r == recommendations[k]
           IN  /\ r.country = c
               /\ IF RLt(FinalScore(c), Rat(6, 10))
                  THEN r.priority = "high" /\ r.type = "cultural_adaptation"
                  ELSE r.priority = "medium" /\ r.type = "minor_adjustments"
               /\ r.specific_suggestions =
                    (IF c \in DOMAIN cultural_analysis.suggestions
                     THEN cultural_analysis.suggestions[c] ELSE <<>>)
      /\ \A i \in 1..Len(target_countries) :
           RLe(Rat(8, 10), FinalScore(target_countries[i]))
             => \A k \in 1..Len(recommendations) :
                  recommendations[k].country # target_countries[i]

C4_Witness ==
    /\ pc = "response"
    /\ Len(target_countries) = 2
    /\ FinalScore(target_countries[1]) = Rat(8, 10)
    /\ Len(recommendations) = 1
    /\ recommendations[1].priority = "high"
    /\ recommendations[1].country = target_countries[2]
    /\ recommendations[1].specific_suggestions # <<>>

\* The penalty of all the flags of the request, whatever their country field.
AllFlagsPenalty ==
    RMin(Rat(8, 10), RSum([j \in 1..Len(bias_results.flags) |-> Rat(FlagSeverities[j], 100)]))

\* C7: every scored country's score_breakdown reports the same bias penalty,
\* min(0.8, sum of severity/10*0.1 over ALL flags whatever their country field),
\* and each country's score is lowered by the same 0.25 * penalty.
C7_SharedPenalty ==
    \A c \in DOMAIN alignment_results.score_breakdown :
      LET b == alignment_results.score_breakdown[c]
          unpenalised == RAdd(RAdd(RMul(b.cultural_fit, Rat(70, 100)), Rat(25, 100)),
                              RMul(b.confidence_bonus, Rat(5, 100)))
      IN  /\ b.bias_penalty = AllFlagsPenalty
          /\ RSub(unpenalised, alignment_results.country_scores[c])
               = RMul(Rat(25, 100), AllFlagsPenalty)

C7_Witness ==
    /\ DOMAIN alignment_results.score_breakdown = {"US", "XX"}
    /\ \E j \in 1..Len(bias_results.flags) :
         /\ bias_results.flags[j].type = "cultural_assumption"
         /\ bias_results.flags[j].country = "US"
    /\ alignment_results.score_breakdown["XX"].bias_penalty = Rat(14, 100)
    /\ alignment_results.score_breakdown["US"].bias_penalty = Rat(14, 100)


(***************************************************************************)
(* The functions called one at a time (specification FnSpec): a call is    *)
(* drawn from a bounded set of arguments and ret holds what it returns.    *)
(* The flag list of a _calculate_bias_penalty call can then grow by a flag *)
(* or have one flag's severity raised, and the function is called again.   *)
(***************************************************************************)
ScoreGridDen == 100
AggGridDen == 2
MaxPenaltyFlags == 9
MaxWords == 4
MaxMean == 6

ScoreGrid == {Rat(k, ScoreGridDen) : k \in 0..ScoreGridDen}

AggGrid == {Rat(k, AggGridDen) : k \in 0..AggGridDen}

DimensionValues == 0..100

DimensionSet == {Dimensions[i] : i \in 1..Len(Dimensions)}

Prefix(keywords, n) == {keywords[i] : i \in 1..n}

high_keywords(dimension) ==
    CASE dimension = "power_distance" -> high_pd_keywords
      [] dimension = "individualism" -> individualistic_keywords
      [] dimension = "masculinity" -> masculine_keywords
      [] dimension = "uncertainty_avoidance" -> high_uai_keywords
      [] dimension = "long_term_orientation" -> long_term_keywords
      [] dimension = "indulgence" -> indulgent_keywords

low_keywords(dimension) ==
    CASE dimension = "power_distance" -> low_pd_keywords
      [] dimension = "individualism" -> collectivistic_keywords
      [] dimension = "masculinity" -> feminine_keywords
      [] dimension = "uncertainty_avoidance" -> low_uai_keywords
      [] dimension = "long_term_orientation" -> short_term_keywords
      [] dimension = "indulgence" -> restrained_keywords

\* Contents with every pair of keyword counts of the dimension, and the
\* content of the "hierarchy"/"boss" scenario.
ModelContents(dimension) ==
    {Prefix(high_keywords(dimension), h) \cup Prefix(low_keywords(dimension), l) :
        h \in 0..Len(high_keywords(dimension)), l \in 0..Len(low_keywords(dimension))}
    \cup {{"hierarchy", "boss"}}

Severity(flag) == IF "severity" \in DOMAIN flag THEN flag.severity ELSE 5

\* A flag of the highest severity, and a flag that carries no severity.
PenaltyFlags ==
    {[type |-> "cultural_assumption", severity |-> 10],
     [type |-> "stereotype"]}

FnInit ==
    /\ pc = "function"
    /\ target_countries = <<>>
    /\ bias_results = [flags |-> <<>>]
    /\ cultural_analysis =
         [cultural_scores |-> EmptyDict, insights |-> EmptyDict, suggestions |-> EmptyDict]
    /\ alignment_results = [overall_score |-> RInt(0), country_scores |-> EmptyDict,
                            confidence |-> EmptyDict, score_breakdown |-> EmptyDict]
    /\ country_scores = <<>>
    /\ idx = 1
    /\ recommendations = <<>>
    /\ risk_level = "unset"
    /\ call = NoCall
    /\ ret = NoCall
    /\ campaign_content = <<>>
    /\ provider = EmptyDict
    /\ gemini_analysis = InitialSentiment
    /\ response = NoResponse

Pipeline == <<pc, target_countries, bias_results, cultural_analysis, alignment_results,
              country_scores, idx, recommendations, risk_level,
              campaign_content, provider, gemini_analysis, response>>

CallAnalyzeDimension ==
    /\ call = NoCall
    /\ \E dimension \in DimensionSet :
         \E content \in ModelContents(dimension), value \in DimensionValues :
            /\ call' = [fn |-> "_analyze_dimension", dimension |-> dimension,
                        content |-> content, value |-> value]
            /\ ret' = _analyze_dimension(dimension, content, value)
    /\ UNCHANGED Pipeline

CallCulturalScore ==
    /\ call = NoCall
    /\ \E dimension_scores \in PartialMaps(DimensionSet, AggGrid) :
         /\ call' = [fn |-> "_calculate_cultural_score",
                     dimension_scores |-> dimension_scores]
         /\ ret' = _calculate_cultural_score(dimension_scores)
    /\ UNCHANGED Pipeline

CallConfidenceInterval ==
    /\ call = NoCall
    /\ \E country \in ModelCountries, score \in ScoreGrid, analysis \in ModelAnalyses :
         /\ call' = [fn |-> "_calculate_confidence_interval", country |-> country,
                     score |-> score, cultural_analysis |-> analysis]
         /\ ret' = _calculate_confidence_interval(country, score, analysis)
    /\ UNCHANGED Pipeline

CallRiskLevel ==
    /\ call = NoCall
    /\ \E alignment_scores \in
            {[overall_score |-> s] : s \in ScoreGrid} \cup {[error |-> "error"]} :
         /\ call' = [fn |-> "_calculate_risk_level", alignment_scores |-> alignment_scores]
         /\ ret' = _calculate_risk_level(alignment_scores)
    /\ UNCHANGED Pipeline

CallBiasPenalty ==
    /\ call = NoCall
    /\ call' = [fn |-> "_calculate_bias_penalty", bias_results |-> [flags |-> <<>>]]
    /\ ret' = _calculate_bias_penalty([flags |-> <<>>])
    /\ UNCHANGED Pipeline

\* The same call with one more flag.
AddFlag ==
    /\ call.fn = "_calculate_bias_penalty"
    /\ Len(call.bias_results.flags) < MaxPenaltyFlags
    /\ \E flag \in PenaltyFlags :
         LET flags == Append(call.bias_results.flags, flag)
         IN  /\ call' = [call EXCEPT !.bias_results = [flags |-> flags]]
             /\ ret' = _calculate_bias_penalty([flags |-> flags])
    /\ UNCHANGED Pipeline

\* The same call with one flag's severity raised.
RaiseSeverity ==
    /\ call.fn = "_calculate_bias_penalty"
    /\ \E j \in 1..Len(call.bias_results.flags), flag \in PenaltyFlags :
         /\ Severity(flag) > Severity(call.bias_results.flags[j])
         /\ LET flags == [call.bias_results.flags EXCEPT ![j] = flag]
            IN  /\ call' = [call EXCEPT !.bias_results = [flags |-> flags]]
                /\ ret' = _calculate_bias_penalty([flags |-> flags])
    /\ UNCHANGED Pipeline

\* _calculate_country_score with the flags of the _calculate_bias_penalty
\* call, for a country with or without a cultural score of the grid.
CallCountryScore ==
    /\ call.fn = "_calculate_bias_penalty"
    /\ \E country \in ModelCountries :
       \E cultural_scores \in PartialMaps({country}, AggGrid) :
         LET cultural_analysis_ ==
                 [cultural_scores |-> cultural_scores, insights |-> EmptyDict,
                  suggestions |-> EmptyDict]
         IN  /\ call' = [fn |-> "_calculate_country_score", country |-> country,
                         bias_results |-> call.bias_results,
                         cultural_analysis |-> cultural_analysis_]
             /\ ret' = _calculate_country_score(country, call.bias_results,
                                                cultural_analysis_)
    /\ UNCHANGED Pipeline

\* The LLM signal of a _detect_cultural_assumptions call: a record with a
\* risk of the grid for "US" and, after it, no record or a record with one
\* of three risks for "XX".
RiskInsights(risk) ==
    JObj([assumption_risk |-> JNum(risk),
          assumption_description |-> JStr("assumes shared values")])

AssumptionSignals ==
    {[cultural_insights |-> <<[key |-> "US", value |-> RiskInsights(risk)]>> \o others] :
        risk \in ScoreGrid,
        others \in {<<>>} \cup
                   {<<[key |-> "XX", value |-> RiskInsights(r)]>> :
                       r \in {Rat(6, 10), Rat(67, 100), RInt(1)}}}

CallCulturalAssumptions ==
    /\ call = NoCall
    /\ \E gemini_analysis_ \in AssumptionSignals :
         /\ call' = [fn |-> "_detect_cultural_assumptions", content |-> <<>>,
                     gemini_analysis |-> gemini_analysis_]
         /\ ret' = _detect_cultural_assumptions(<<>>, gemini_analysis_)
    /\ UNCHANGED Pipeline

\* The words of the texts of a detect_bias call: one for each of four
\* patterns, and a word no pattern matches.
BiasWords == {"exotic", "native", "american dream", "everyone", "team"}

\* The LLM signals of a detect_bias call: the result of a failed analysis,
\* records with risks above and below 0.6 and with the risk 1, a record
\* without a risk, and records whose risk is a string or is null.
BiasSignals ==
    {FailedSentiment,
     [cultural_insights |-> <<[key |-> "US", value |-> RiskInsights(Rat(67, 100))]>>],
     [cultural_insights |-> <<[key |-> "US", value |-> RiskInsights(RInt(1))]>>],
     [cultural_insights |-> <<[key |-> "US", value |-> RiskInsights(Rat(99, 100))],
                              [key |-> "XX", value |-> RiskInsights(Rat(75, 100))]>>],
     [cultural_insights |-> <<[key |-> "US", value |-> JObj(EmptyDict)],
                              [key |-> "XX", value |-> RiskInsights(Rat(5, 10))]>>],
     [cultural_insights |-> <<[key |-> "US", value |-> JObj([assumption_risk |-> JStr("0.8")])]>>],
     [cultural_insights |-> <<[key |-> "US", value |-> JObj([assumption_risk |-> JNull])]>>]}

CallDetectBias ==
    /\ call = NoCall
    /\ \E gemini_analysis_ \in BiasSignals :
         /\ call' = [fn |-> "detect_bias", content |-> <<>>,
                     gemini_analysis |-> gemini_analysis_]
         /\ ret' = detect_bias(<<>>, gemini_analysis_)
    /\ UNCHANGED Pipeline

\* The same call for a text with one more word.
AddWord ==
    /\ call.fn = "detect_bias"
    /\ Len(call.content) < MaxWords
    /\ \E word \in BiasWords :
         LET content == Append(call.content, word)
         IN  /\ call' = [call EXCEPT !.content = content]
             /\ ret' = detect_bias(content, call.gemini_analysis)
    /\ UNCHANGED Pipeline

CallGenerateInsights ==
    /\ call = NoCall
    /\ \E country \in ModelCountries, scores \in PartialMaps(DimensionSet, AggGrid) :
         LET dimensions == DictGet(analyzer_hofstede_data, country, EmptyDict)
         IN  /\ call' = [fn |-> "_generate_insights", content |-> <<>>,
                         dimensions |-> dimensions, scores |-> scores, country |-> country]
             /\ ret' = _generate_insights(<<>>, dimensions, scores, country)
    /\ UNCHANGED Pipeline

\* Alignment scores below, at and above the threshold of a suggestion.
SuggestionScores == {Rat(5, 10), Rat(6, 10), Rat(7, 10)}

\* _generate_suggestions for a country with a profile and the scores of its
\* six dimensions.
CallGenerateSuggestions ==
    /\ call = NoCall
    /\ \E country \in {"US", "JP"}, scores \in [DimensionSet -> SuggestionScores] :
         /\ call' = [fn |-> "_generate_suggestions", scores |-> scores,
                     country |-> country, industry |-> "general"]
         /\ ret' = _generate_suggestions(scores, country, "general")
    /\ UNCHANGED Pipeline

\* Country scores calculate_alignment computes: 0.5874999999999999 (a
\* country without profile, one flag of severity 5), 0.6 (the same country,
\* no flag), 0.8 and 0.8000000000000002 (a country with profile, no flag).
ScoresBinary64 ==
    {<<308019, 209715, 209664>>, <<314572, 838860, 838848>>,
     <<419430, 419430, 419456>>, <<419430, 419430, 419520>>}

\* The mean of the scores of a request of one country.
CallMean ==
    /\ call = NoCall
    /\ \E country_score \in ScoresBinary64 :
         /\ call' = [fn |-> "np.mean", country_scores |-> <<country_score>>]
         /\ ret' = MeanBinary64(<<country_score>>)
    /\ UNCHANGED Pipeline

\* The same call for a request of one country more.
AddScore ==
    /\ call.fn = "np.mean"
    /\ Len(call.country_scores) < MaxMean
    /\ \E country_score \in ScoresBinary64 :
         LET scores == Append(call.country_scores, country_score)
         IN  /\ call' = [call EXCEPT !.country_scores = scores]
             /\ ret' = MeanBinary64(scores)
    /\ UNCHANGED Pipeline

FnNext ==
    \/ CallCulturalAssumptions
    \/ CallDetectBias
    \/ AddWord
    \/ CallGenerateInsights
    \/ CallAnalyzeDimension
    \/ CallCulturalScore
    \/ CallConfidenceInterval
    \/ CallRiskLevel
    \/ CallBiasPenalty
    \/ AddFlag
    \/ RaiseSeverity
    \/ CallCountryScore
    \/ CallMean
    \/ AddScore
    \/ CallGenerateSuggestions

FnSpec == FnInit /\ [][FnNext]_vars


(***************************************************************************)
(* Claims about the functions (specification FnSpec).                      *)
(***************************************************************************)
\* C2: the confidence interval of a score in [0,1] satisfies
\* 0 <= lower_bound <= score <= upper_bound <= 1, with lower_bound =
\* max(0, score - margin) and upper_bound = min(1, score + margin), each side
\* clamped on its own: score 0.97 with margin 1.96 * 0.15 gives upper_bound 1
\* and lower_bound 0.97 - 0.294.
C2_IntervalBounds ==
    call.fn = "_calculate_confidence_interval" =>
      LET score == call.score
          margin == ret.margin_of_error
          below == RSub(score, margin)
          above == RAdd(score, margin)
      IN  /\ RLe(RInt(0), ret.lower_bound)
          /\ RLe(ret.lower_bound, score)
          /\ RLe(score, ret.upper_bound)
          /\ RLe(ret.upper_bound, RInt(1))
          /\ ret.lower_bound = (IF RLt(below, RInt(0)) THEN RInt(0) ELSE below)
          /\ ret.upper_bound = (IF RLt(RInt(1), above) THEN RInt(1) ELSE above)
          /\ (score = Rat(97, 100) /\ margin = Rat(294, 1000))
               => (ret.upper_bound = RInt(1) /\ ret.lower_bound = Rat(676, 1000))

C2_Witness ==
    /\ call.fn = "_calculate_confidence_interval"
    /\ call.score = Rat(97, 100)
    /\ ret.margin_of_error = Rat(294, 1000)
    /\ ret.upper_bound = RInt(1)
    /\ ret.lower_bound = Rat(676, 1000)

\* C5: the risk level is "low" for an overall score of 0.8 or more, "medium"
\* from 0.6 and below 0.8, and "high" below 0.6 (a result without an overall
\* score counts as 0).
C5_RiskLevel ==
    call.fn = "_calculate_risk_level" =>
      LET s == IF "overall_score" \in DOMAIN call.alignment_scores
               THEN call.alignment_scores.overall_score ELSE RInt(0)
      IN  /\ RLe(Rat(8, 10), s) => ret = "low"
          /\ (RLe(Rat(6, 10), s) /\ RLt(s, Rat(8, 10))) => ret = "medium"
          /\ RLt(s, Rat(6, 10)) => ret = "high"

C5_Witness ==
    /\ call.fn = "_calculate_risk_level"
    /\ "overall_score" \in DOMAIN call.alignment_scores
    /\ call.alignment_scores.overall_score = Rat(8, 10)
    /\ ret = "low"

\* The uncapped sum of severity/10 * 0.1 over a flag list.
PenaltySum(flags) == RSum([j \in 1..Len(flags) |-> Rat(Severity(flags[j]), 100)])

\* The value of the penalty of a call.
C6_PenaltyValue ==
    call.fn = "_calculate_bias_penalty" =>
      LET flags == call.bias_results.flags
      IN  /\ RLe(ret, Rat(8, 10))
          /\ flags = <<>> => ret = RInt(0)
          /\ ret = (IF RLt(Rat(8, 10), PenaltySum(flags)) THEN Rat(8, 10)
                    ELSE PenaltySum(flags))

\* A step from one penalty call to the next does not lower the penalty.
C6_PenaltyStep ==
    (call.fn = "_calculate_bias_penalty" /\ call'.fn = "_calculate_bias_penalty")
      => RLe(ret, ret')

\* C6: the bias penalty is min(0.8, sum of severity/10 * 0.1), 0 for no flag
\* and never above 0.8, and it does not decrease when a flag is added or a
\* flag's severity is raised.
C6_PenaltyMonotone == [](C6_PenaltyValue) /\ [][C6_PenaltyStep]_vars

C6_Witness ==
    /\ call.fn = "_calculate_bias_penalty"
    /\ Len(call.bias_results.flags) = 9
    /\ RLt(Rat(8, 10), PenaltySum(call.bias_results.flags))
    /\ ret = Rat(8, 10)

\* The keyword counts and the two tendencies of an _analyze_dimension call.
Range(seq) == {seq[i] : i \in 1..Len(seq)}

HighCount == Cardinality(call.content \cap Range(high_keywords(call.dimension)))

LowCount == Cardinality(call.content \cap Range(low_keywords(call.dimension)))

ContentTendency ==
    Rat(HighCount - LowCount, IF HighCount + LowCount = 0 THEN 1 ELSE HighCount + LowCount)

CountryTendency == Rat(call.value - 50, 50)

\* C8: a dimension alignment lies in [0,1] for every pair of keyword counts and
\* every country value in 0..100; it is 1 when the content tendency equals the
\* country tendency and 0 when the two are at opposite extremes.
C8_AlignmentRange ==
    call.fn = "_analyze_dimension" =>
      /\ RLe(RInt(0), ret)
      /\ RLe(ret, RInt(1))
      /\ ContentTendency = CountryTendency => ret = RInt(1)
      /\ (\/ ContentTendency = RInt(1) /\ CountryTendency = RInt(-1)
          \/ ContentTendency = RInt(-1) /\ CountryTendency = RInt(1)) => ret = RInt(0)

C8_Witness ==
    /\ call.fn = "_analyze_dimension"
    /\ HighCount = 0
    /\ LowCount = 3
    /\ call.value = 100
    /\ ret = RInt(0)

\* C9: for each of the six dimensions the alignment is
\* clamp(1 - |(high - low)/max(1, high + low) - (v - 50)/50| / 2, 0, 1); with no
\* keyword present it is 1 - |v - 50|/100 (PDI 40 gives 0.9), and "hierarchy"
\* and "boss" alone with PDI 80 give 0.8.
C9_AlignmentFormula ==
    call.fn = "_analyze_dimension" =>
      LET distance == RAbs(RSub(ContentTendency, CountryTendency))
      IN  /\ ret = Clamp01(RSub(RInt(1), RMul(distance, Rat(1, 2))))
          /\ (HighCount = 0 /\ LowCount = 0)
               => ret = RSub(RInt(1), Rat(Abs(call.value - 50), 100))
          /\ (/\ call.dimension = "power_distance"
              /\ call.content = {}
              /\ call.value = hofstede_data["US"].PDI) => ret = Rat(9, 10)
          /\ (/\ call.dimension = "power_distance"
              /\ call.content = {"hierarchy", "boss"}
              /\ call.value = 80) => ret = Rat(8, 10)

C9_Witness ==
    /\ call.fn = "_analyze_dimension"
    /\ call.dimension = "power_distance"
    /\ call.content = {"hierarchy", "boss"}
    /\ call.value = 80
    /\ HighCount = 2
    /\ LowCount = 0
    /\ ret = Rat(8, 10)

\* C10: the six aggregation weights are 0.20, 0.25, 0.15, 0.20, 0.10, 0.10 and
\* sum to 1.0, and the weighted cultural-fit score of per-dimension scores in
\* [0,1] lies in [0,1].
C10_WeightedScoreRange ==
    /\ [i \in 1..Len(Dimensions) |-> dimension_weights[Dimensions[i]]]
         = <<Rat(20, 100), Rat(25, 100), Rat(15, 100), Rat(20, 100), Rat(10, 100), Rat(10, 100)>>
    /\ RSum([i \in 1..Len(Dimensions) |-> dimension_weights[Dimensions[i]]]) = RInt(1)
    /\ call.fn = "_calculate_cultural_score" =>
         (RLe(RInt(0), ret) /\ RLe(ret, RInt(1)))

C10_Witness ==
    /\ call.fn = "_calculate_cultural_score"
    /\ DOMAIN call.dimension_scores = DimensionSet
    /\ \A d \in DimensionSet : call.dimension_scores[d] = RInt(1)
    /\ ret = RInt(1)

\* The weighted sum in which a dimension without a score counts as 0.5:
\* 0.20, 0.25, 0.15, 0.20, 0.10 and 0.10 times the six scores.
NeutralWeightedSum(dimension_scores) ==
    LET score(d) == IF d \in DOMAIN dimension_scores THEN dimension_scores[d]
                    ELSE Rat(1, 2)
    IN  RSum(<<RMul(score("power_distance"), Rat(20, 100)),
               RMul(score("individualism"), Rat(25, 100)),
               RMul(score("masculinity"), Rat(15, 100)),
               RMul(score("uncertainty_avoidance"), Rat(20, 100)),
               RMul(score("long_term_orientation"), Rat(10, 100)),
               RMul(score("indulgence"), Rat(10, 100))>>)

\* C11 as stated: for every subset of the six dimensions present in the
\* mapping, the empty subset included, the aggregate is the weighted sum in
\* which each missing dimension contributes 0.5 times its weight.
C11_AnySubsetNeutral ==
    call.fn = "_calculate_cultural_score" =>
      ret = NeutralWeightedSum(call.dimension_scores)

\* C11 (amended): for every non-empty subset of the six dimensions present in
\* the mapping, the aggregate is the weighted sum in which each missing
\* dimension contributes 0.5 times its weight; for the empty mapping the
\* aggregate is 0.0, not 0.5; a missing dimension never causes an error (the
\* call always returns a number).
C11_NonEmptySubsetNeutral ==
    call.fn = "_calculate_cultural_score" =>
      /\ ret.den > 0
      /\ (DOMAIN call.dimension_scores # {} =>
            ret = NeutralWeightedSum(call.dimension_scores))
      /\ (DOMAIN call.dimension_scores = {} => ret = RInt(0))

\* Only individualism is scored, with 1.0: 0.25 + 0.5 * 0.75 = 0.625.
C11_Witness ==
    /\ call.fn = "_calculate_cultural_score"
    /\ DOMAIN call.dimension_scores = {"individualism"}
    /\ call.dimension_scores["individualism"] = RInt(1)
    /\ ret = Rat(625, 1000)

\* 1 when the indicator holds, 0 when it does not.
Indicator(b) == IF b THEN RInt(1) ELSE RInt(0)

\* The standard error of a data quality: 0.05 above 0.8, 0.10 above 0.6 and
\* up to 0.8, 0.15 otherwise.
StdErrorTier(data_quality) ==
    IF RLt(Rat(8, 10), data_quality) THEN Rat(5, 100)
    ELSE IF RLt(Rat(6, 10), data_quality) /\ RLe(data_quality, Rat(8, 10)) THEN Rat(10, 100)
    ELSE Rat(15, 100)

\* C13: for every combination of the three indicators (has static profile,
\* has cultural score, has insights), dataQuality = 0.4*[profile] +
\* 0.3*[score] + 0.3*[insights] lies in [0,1]; the standard error is 0.05 when
\* dataQuality > 0.8, 0.10 when 0.6 < dataQuality <= 0.8 and 0.15 otherwise;
\* margin_of_error = 1.96 * stdError and confidence_level is 0.95.
C13_DataQualityTiers ==
    call.fn = "_calculate_confidence_interval" =>
      LET profile == call.country \in {"US", "UK", "JP", "CN", "DE", "FR", "IN", "BR"}
          score == call.country \in DOMAIN call.cultural_analysis.cultural_scores
          insights == call.country \in DOMAIN call.cultural_analysis.insights
          dataQuality == RAdd(RAdd(RMul(Rat(4, 10), Indicator(profile)),
                                   RMul(Rat(3, 10), Indicator(score))),
                              RMul(Rat(3, 10), Indicator(insights)))
      IN  /\ ret.data_quality = dataQuality
          /\ RLe(RInt(0), ret.data_quality) /\ RLe(ret.data_quality, RInt(1))
          /\ ret.margin_of_error = RMul(Rat(196, 100), StdErrorTier(dataQuality))
          /\ ret.confidence_level = Rat(95, 100)

\* No static profile, but a cultural score and insights: dataQuality is
\* exactly 0.6, which still selects the 0.15 tier (margin 0.294).
C13_Witness ==
    /\ call.fn = "_calculate_confidence_interval"
    /\ call.country = "XX"
    /\ "XX" \in DOMAIN call.cultural_analysis.cultural_scores
    /\ "XX" \in DOMAIN call.cultural_analysis.insights
    /\ ret.data_quality = Rat(6, 10)
    /\ ret.margin_of_error = Rat(294, 1000)


(***************************************************************************)
(* Claims about analyze_campaign as a whole (specification PipeSpec).      *)
(***************************************************************************)
\* The number of positions of target_countries calculate_alignment has scored.
PipeScored ==
    IF pc \in {"analyze_cultural_sentiment", "detect_bias", "analyze_cultural_fit"}
    THEN 0 ELSE Scored

\* The country codes of the static country-profile table.
ProfileCountries == {"US", "UK", "JP", "CN", "DE", "FR", "IN", "BR"}

\* The cultural analysis of a request for the one country c.
AnalysisAlone(c) ==
    AnalyzeCountryFit(InitialAnalysis("general"), campaign_content, c, "general")

RecordRisk(item) == item.value.fields["assumption_risk"].number

\* The positions of the flags of a flag list that name the country.
CountryFlags(flags, country) ==
    {j \in 1..Len(flags) : flags[j].type = "cultural_assumption" /\ flags[j].country = country}

\* round(x) of Python for x >= 0: the nearest integer, the even one of two
\* that are equally near.
Round(x) ==
    LET floor == x.num \div x.den
        twice == 2 * (x.num - floor * x.den)
    IN  IF twice < x.den THEN floor
        ELSE IF twice > x.den THEN floor + 1
        ELSE IF floor % 2 = 0 THEN floor ELSE floor + 1

\* The scan emits exactly one flag for every country whose risk is above
\* 0.6, with severity Sev(risk), and none for a risk of at most 0.6.
OneFlagPerRisk(Sev(_)) ==
    call.fn = "_detect_cultural_assumptions" =>
      LET gemini_insights == call.gemini_analysis.cultural_insights
      IN  /\ ~ret.raised
          /\ \A i \in 1..Len(gemini_insights) :
               LET risk == RecordRisk(gemini_insights[i])
                   found == CountryFlags(ret.flags, gemini_insights[i].key)
               IN  IF RLt(Rat(6, 10), risk)
                   THEN /\ Cardinality(found) = 1
                        /\ \A j \in found : /\ ret.flags[j].severity = Sev(risk)
                                            /\ ret.flags[j].risk_score = risk
                   ELSE found = {}
          /\ \A j \in 1..Len(ret.flags) :
               \E i \in 1..Len(gemini_insights) :
                  j \in CountryFlags(ret.flags, gemini_insights[i].key)

RoundedSeverity(risk) == Round(RMul(risk, RInt(10)))

TruncatedSeverity(risk) == CHOOSE n \in 0..10 : RLe(RInt(n), RMul(risk, RInt(10)))
                                                 /\ RLt(RMul(risk, RInt(10)), RInt(n + 1))

\* C14 as stated: the cultural-assumption scan emits exactly one flag for
\* every country whose assumption_risk is strictly greater than 0.6 and none
\* for risk <= 0.6, and the flag's severity equals round(risk * 10) for every
\* risk in (0.6, 1.0] (risk 0.67 gives severity 7, risk 0.99 gives 10).
C14_RoundedSeverity == OneFlagPerRisk(RoundedSeverity)

\* C14 (amended): the cultural-assumption scan emits exactly one flag for
\* every country whose assumption_risk is strictly greater than 0.6 and none
\* for risk <= 0.6, and the flag's severity equals risk * 10 truncated to an
\* integer, int(risk * 10), for every risk in (0.6, 1.0] (risk 0.67 gives
\* severity 6, risk 0.99 gives 9, only risk 1.0 gives 10).
C14_TruncatedSeverity == OneFlagPerRisk(TruncatedSeverity)

\* Risks 0.99 for "US" and 0.67 for "XX": two flags, of severities 9 and 6.
C14_Witness ==
    /\ call.fn = "_detect_cultural_assumptions"
    /\ Len(call.gemini_analysis.cultural_insights) = 2
    /\ RecordRisk(call.gemini_analysis.cultural_insights[1]) = Rat(99, 100)
    /\ RecordRisk(call.gemini_analysis.cultural_insights[2]) = Rat(67, 100)
    /\ Len(ret.flags) = 2
    /\ ret.flags[1].country = "US" /\ ret.flags[1].severity = 9
    /\ ret.flags[2].country = "XX" /\ ret.flags[2].severity = 6

\* The confidence the heuristic gives to flagCount flags of
\* distinctCategoryCount categories.
Heuristic(flagCount, distinctCategoryCount) ==
    IF flagCount = 0 THEN Rat(95, 100)
    ELSE RMin(RAdd(RMin(RAdd(Rat(5, 10), RMul(Rat(1, 10), RInt(flagCount))), Rat(9, 10)),
                   RMin(RMul(Rat(5, 100), RInt(distinctCategoryCount)), Rat(1, 10))),
              Rat(95, 100))

\* The flags and the distinct categories of a detect_bias result.
FlagCount(bias) == Len(bias.flags)

CategoryCount(bias) == Cardinality({bias.bias_categories[i] : i \in 1..Len(bias.bias_categories)})

\* A detect_bias call that returned from its try block.
Detected(c, r) == c.fn = "detect_bias" /\ "error" \notin DOMAIN r

\* The confidence of a completed detection is the heuristic's, and lies in
\* [0.65, 0.95] for a flag list that is not empty.
C16_ConfidenceValue ==
    Detected(call, ret) =>
      /\ ret.confidence_score = Heuristic(FlagCount(ret), CategoryCount(ret))
      /\ FlagCount(ret) = 0 => ret.confidence_score = Rat(95, 100)
      /\ FlagCount(ret) > 0 =>
           /\ RLe(Rat(65, 100), ret.confidence_score)
           /\ RLe(ret.confidence_score, Rat(95, 100))

\* A word more in the text: the confidence of a flag list that was not empty
\* does not drop when the flags and their categories do not.
C16_ConfidenceStep ==
    (/\ Detected(call, ret) /\ Detected(call', ret')
     /\ FlagCount(ret) > 0
     /\ FlagCount(ret') >= FlagCount(ret)
     /\ CategoryCount(ret') >= CategoryCount(ret))
    => RLe(ret.confidence_score, ret'.confidence_score)

\* C16: the detection confidence is 0.95 when there are zero flags;
\* otherwise it equals min(min(0.5 + 0.1*flagCount, 0.9) +
\* min(0.05*distinctCategoryCount, 0.1), 0.95), so for any non-empty flag
\* list it lies in [0.65, 0.95] and is non-decreasing in flagCount and in
\* distinctCategoryCount.
C16_Confidence == [](C16_ConfidenceValue) /\ [][C16_ConfidenceStep]_vars

\* Three flags of three categories: min(0.8, 0.9) + min(0.15, 0.1) = 0.9.
C16_Witness ==
    /\ Detected(call, ret)
    /\ FlagCount(ret) = 3
    /\ CategoryCount(ret) = 3
    /\ ret.confidence_score = Rat(9, 10)

\* The position of a flag's group in the flat sequence.
GroupRank(flag) ==
    CASE flag.type = "stereotype" -> 1
      [] flag.type = "linguistic" -> 2
      [] flag.type = "cultural_assumption" -> 3
      [] flag.type = "representation" -> 4

\* The flags of one type, in the order of the flat sequence.
FlagsOfType(flags, type) == SelectSeq(flags, LAMBDA flag : flag.type = type)

\* The number of occurrences in a text of the words a pattern matches.
Occurrences(words, content) == Cardinality({i \in 1..Len(content) : content[i] \in words})

\* The words and the severity of the patterns the texts can match, by the
\* first word of the pattern.
PatternOf(flag) ==
    CASE flag.pattern = "\\b(exotic|primitive|backward|underdeveloped)\\b" ->
           [words |-> {"exotic"}, severity |-> 8, rank |-> 1]
      [] flag.pattern = "\\b(oriental|third world|native)\\b" ->
           [words |-> {"native"}, severity |-> 7, rank |-> 2]
      [] flag.pattern = "\\b(american dream|melting pot|pull yourself up)" ->
           [words |-> {"american dream"}, severity |-> 5, rank |-> 1]
      [] flag.pattern = "\\b(everyone|all people|universal)\\b" ->
           [words |-> {"everyone"}, severity |-> 4, rank |-> 1]

\* C17: the flat flag sequence returned by detect_bias lists all stereotype
\* flags first, then all linguistic flags, then all cultural_assumption
\* flags, then all representation flags, each group in the order its
\* sub-scan produced them; each regex pattern contributes at most one flag,
\* whose severity is the pattern's fixed severity regardless of how many
\* times it matched.
C17_FlagOrder ==
    Detected(call, ret) =>
      LET flags == ret.flags
          signal == call.gemini_analysis.cultural_insights
      IN  /\ \A i, j \in 1..Len(flags) : i < j => GroupRank(flags[i]) <= GroupRank(flags[j])
          /\ FlagsOfType(flags, "stereotype") = _detect_stereotype_bias(call.content).flags
          /\ FlagsOfType(flags, "linguistic") = _detect_linguistic_bias(call.content).flags
          /\ FlagsOfType(flags, "cultural_assumption")
               = _detect_cultural_assumptions(call.content, call.gemini_analysis).flags
          /\ FlagsOfType(flags, "representation")
               = _detect_representation_bias(call.content).flags
          /\ \A i, j \in 1..Len(flags) :
               (i < j /\ flags[i].type = flags[j].type) =>
                  IF flags[i].type = "cultural_assumption"
                  THEN \E m, n \in 1..Len(signal) :
                          m < n /\ signal[m].key = flags[i].country
                                /\ signal[n].key = flags[j].country
                  ELSE PatternOf(flags[i]).rank < PatternOf(flags[j]).rank
          /\ \A i \in 1..Len(flags) :
               flags[i].type # "cultural_assumption" =>
                  /\ flags[i].severity = PatternOf(flags[i]).severity
                  /\ Len(flags[i].matches) = Occurrences(PatternOf(flags[i]).words, call.content)
                  /\ Len(flags[i].matches) >= 1
          /\ \A word \in {"exotic", "native", "american dream", "everyone"} :
               Occurrences({word}, call.content) > 0 =>
                  Cardinality({i \in 1..Len(flags) :
                                 /\ flags[i].type # "cultural_assumption"
                                 /\ word \in PatternOf(flags[i]).words}) = 1

\* "everyone american dream exotic exotic" with a risk of 0.67 for "US": the
\* flags are the stereotype (matched twice, severity 8), the linguistic, the
\* cultural-assumption and the representation flag, in this order.
C17_Witness ==
    /\ Detected(call, ret)
    /\ call.content = <<"everyone", "american dream", "exotic", "exotic">>
    /\ Len(ret.flags) = 4
    /\ ret.flags[1].type = "stereotype"
    /\ ret.flags[1].matches = <<"exotic", "exotic">>
    /\ ret.flags[1].severity = 8
    /\ ret.flags[2].type = "linguistic"
    /\ ret.flags[3].type = "cultural_assumption"
    /\ ret.flags[4].type = "representation"


(***************************************************************************)
(* Claims about the insights (specification FnSpec).                       *)
(***************************************************************************)
\* The label of an alignment summary.
Label(summary) ==
    CASE summary = "Excellent cultural alignment" -> "excellent"
      [] summary = "Good cultural alignment" -> "good"
      [] summary = "Cultural misalignment detected" -> "misaligned"
      [] OTHER -> "none"

\* The weighted cultural-fit score of the scores of a _generate_insights call.
InsightsScore ==
    IF DOMAIN call.scores = {} THEN RInt(0) ELSE NeutralWeightedSum(call.scores)

\* C18 as stated: the label produced with the insights is "excellent" when
\* the weighted cultural-fit score is >= 0.8, "good" when it is >= 0.6 and
\* < 0.8, and "misaligned" otherwise, including at exactly 0.8 and 0.6.
C18_InclusiveLabels ==
    (call.fn = "_generate_insights" /\ DOMAIN call.scores # {}) =>
      Label(ret.alignment_summary) =
          IF RLe(Rat(8, 10), InsightsScore) THEN "excellent"
          ELSE IF RLe(Rat(6, 10), InsightsScore) THEN "good"
          ELSE "misaligned"

\* C18 (amended): the label produced with the insights of a country that has
\* dimension scores is "excellent" when the weighted cultural-fit score is
\* > 0.8, "good" when it is > 0.6 and <= 0.8, and "misaligned" otherwise: a
\* score of exactly 0.8 is "good" and a score of exactly 0.6 is
\* "misaligned".
C18_StrictLabels ==
    (call.fn = "_generate_insights" /\ DOMAIN call.scores # {}) =>
      Label(ret.alignment_summary) =
          IF RLt(Rat(8, 10), InsightsScore) THEN "excellent"
          ELSE IF RLt(Rat(6, 10), InsightsScore) THEN "good"
          ELSE "misaligned"

\* Scores 1, 1, 1, 1, 0, 0: the weighted score is exactly 0.8 and the label
\* is "good".
C18_Witness ==
    /\ call.fn = "_generate_insights"
    /\ DOMAIN call.scores = DimensionSet
    /\ InsightsScore = Rat(8, 10)
    /\ call.scores["long_term_orientation"] = RInt(0)
    /\ call.scores["indulgence"] = RInt(0)
    /\ Label(ret.alignment_summary) = "good"


(***************************************************************************)
(* Claims about the failures of a stage (specification PipeSpec).          *)
(***************************************************************************)
\* detect_bias has returned.
BiasDetected == pc \notin {"analyze_cultural_sentiment", "detect_bias"}

\* A record of the LLM signal with a numeric assumption_risk.
WellFormed(item) ==
    /\ item.value.type = "object"
    /\ "assumption_risk" \in DOMAIN item.value.fields
    /\ item.value.fields["assumption_risk"].type = "number"

\* The flags of a flag list that are not cultural_assumption flags.
PatternFlagsOf(flags) == SelectSeq(flags, LAMBDA flag : flag.type # "cultural_assumption")

\* C15: if the external LLM signal is absent or malformed (no
\* cultural_insights, a country record without assumption_risk, or an
\* assumption_risk that is not a number), the cultural-assumption sub-scan
\* yields no flags and bias detection is not fatal: detect_bias still
\* returns the flags found by the stereotype, linguistic and representation
\* sub-scans.
C15_FailOpen ==
    BiasDetected =>
      LET signal == gemini_analysis.cultural_insights
          flags == bias_results.flags
      IN  /\ \A j \in 1..Len(flags) :
               flags[j].type = "cultural_assumption" =>
                  \E i \in 1..Len(signal) :
                     signal[i].key = flags[j].country /\ WellFormed(signal[i])
          /\ PatternFlagsOf(flags)
               = _detect_stereotype_bias(campaign_content).flags
                 \o _detect_linguistic_bias(campaign_content).flags
                 \o _detect_representation_bias(campaign_content).flags

\* A stage caught an exception and returned its substitute value.
StageRaised ==
    \/ "error" \in DOMAIN gemini_analysis
    \/ "error" \in DOMAIN bias_results
    \/ "error" \in DOMAIN cultural_analysis
    \/ "error" \in DOMAIN alignment_results

\* C19: if an unexpected exception is raised inside any stage of the chain
\* (LLM signal, bias detection, cultural analysis, alignment scoring,
\* recommendation generation), the overall request fails with an error
\* outcome; it never completes with a normally-shaped success response
\* built from the failed stage's substitute values.
C19_RequestFails ==
    (pc = "done" /\ StageRaised) => response.status # 200


(***************************************************************************)
(* Claims about the order of the per-country merges (specification         *)
(* PipeSpec).                                                              *)
(***************************************************************************)
\* What analyze_cultural_sentiment returns when the replies are stored in
\* the order `order` instead of the order of target_countries.
RECURSIVE MergedInOrder(_)
MergedInOrder(order) ==
    IF order = <<>> THEN InitialSentiment
    ELSE LET country == order[Len(order)]
         IN  StoreReply(MergedInOrder(SubSeq(order, 1, Len(order) - 1)), country,
                        provider[country])

\* The orders in which the calls for target_countries can complete.
MergeOrders ==
    {order \in BoundedSeq(ModelCountries, MaxCountries) :
        /\ Len(order) = Len(target_countries)
        /\ Elements(order) = Elements(target_countries)}

DistinctCountries == Cardinality(Elements(target_countries)) = Len(target_countries)

AllCallsSucceed ==
    \A i \in 1..Len(target_countries) :
       ~ReplyRaises(provider[target_countries[i]], target_countries[i])

\* The bias results of the request had the replies been merged in `order`.
BiasInOrder(order) == detect_bias(campaign_content, MergedInOrder(order))

\* The two flag lists hold the same flags, each as often.
SameFlags(f, g) ==
    /\ Len(f) = Len(g)
    /\ \A i \in 1..Len(f) :
          Cardinality({j \in 1..Len(f) : f[j] = f[i]})
            = Cardinality({j \in 1..Len(g) : g[j] = f[i]})

\* Final score, confidence interval and overall score, as real numbers, of
\* the bias results b are those of the request.
SameScores(b) ==
    /\ _calculate_bias_penalty(b) = _calculate_bias_penalty(bias_results)
    /\ \A i \in 1..Len(target_countries) :
          LET c == target_countries[i]
              score == _calculate_country_score(c, b, cultural_analysis)
          IN  /\ score = alignment_results.country_scores[c]
              /\ _calculate_confidence_interval(c, score, cultural_analysis)
                   = alignment_results.confidence[c]
    /\ WithOverallScore(alignment_results,
                        [i \in 1..Len(target_countries) |->
                           _calculate_country_score(target_countries[i], b,
                                                    cultural_analysis)]).overall_score
         = alignment_results.overall_score

\* Two binary64 penalties no further apart than 2^-50, which is 2^9 of the
\* units of 2^-59.
NearBinary64(x, y) ==
    /\ LeBinary64(x, Carry(<<y[1], y[2], y[3] + 2^9>>))
    /\ LeBinary64(y, Carry(<<x[1], x[2], x[3] + 2^9>>))

\* The request is answered, its countries were distinct and every call
\* succeeded.
MergedRequest == pc = "done" /\ DistinctCountries /\ AllCallsSucceed

NotJson(reply) == reply.kind \in {"bad_json", "text"}

\* C21: when the provider's reply for a country cannot be parsed as JSON,
\* the manual best-effort line parser is tried on it, and the fixed default
\* record (assumption_risk = 0.5, sentiment_score = 0.5) is substituted
\* only if the manual parser also fails; in no case does a parse failure
\* fail the request.  The manual parser fails on no reply, so every such
\* reply is stored as the manual parser reads it.
C21_ManualParserTried ==
    /\ \A i \in 1..Len(gemini_analysis.cultural_insights) :
          LET country == gemini_analysis.cultural_insights[i].key
              reply == provider[country]
              manual == _manual_parse_response(reply, country).fields
          IN  NotJson(reply) =>
                /\ gemini_analysis.cultural_insights[i].value = manual.insights
                /\ gemini_analysis.sentiment_scores[country] = manual.sentiment_score
    /\ pc = "done" => response.status = 200


\* The countries of a list, each once, in the order of their first
\* occurrence: the keys of a dictionary filled in the order of the list.
RECURSIVE FirstOccurrences(_)
FirstOccurrences(countries) ==
    IF countries = <<>> THEN <<>>
    ELSE LET front == FirstOccurrences(SubSeq(countries, 1, Len(countries) - 1))
             country == countries[Len(countries)]
         IN  IF country \in Elements(front) THEN front ELSE Append(front, country)

\* The keys of an ordered dictionary, in its order.
KeyList(od) == [i \in 1..Len(od) |-> od[i].key]

\* The positions of target_countries whose call raises.
RaisingCalls ==
    {k \in 1..Len(target_countries) :
        ReplyRaises(provider[target_countries[k]], target_countries[k])}

\* While the loop runs, the countries before idx have been called, in list
\* order, and none of them raised; after it, either no call raised and
\* every country is stored, or the results are empty and no flag is a
\* cultural_assumption flag.
C22_Stored ==
    /\ pc = "analyze_cultural_sentiment" =>
         /\ \A k \in RaisingCalls : idx <= k
         /\ KeyList(gemini_analysis.cultural_insights)
              = FirstOccurrences(SubSeq(target_countries, 1, idx - 1))
         /\ DOMAIN gemini_analysis.sentiment_scores
              = Elements(SubSeq(target_countries, 1, idx - 1))
    /\ pc # "analyze_cultural_sentiment" =>
         IF RaisingCalls = {}
         THEN KeyList(gemini_analysis.cultural_insights) = FirstOccurrences(target_countries)
         ELSE /\ gemini_analysis.cultural_insights = <<>>
              /\ gemini_analysis.sentiment_scores = EmptyDict
              /\ gemini_analysis.risk_assessments = EmptyDict
              /\ \A j \in 1..Len(bias_results.flags) :
                    bias_results.flags[j].type # "cultural_assumption"

\* A step of the loop calls the provider for the country at idx and for no
\* other; the step of a call that raises ends the loop.
C22_Step ==
    pc = "analyze_cultural_sentiment" /\ idx <= Len(target_countries) =>
       IF idx \in RaisingCalls
       THEN pc' = "detect_bias" /\ gemini_analysis'.cultural_insights = <<>>
       ELSE /\ pc' = pc
            /\ idx' = idx + 1
            /\ gemini_analysis'.cultural_insights
                 = ODictPut(gemini_analysis.cultural_insights, target_countries[idx],
                            ODictGet(gemini_analysis'.cultural_insights,
                                     target_countries[idx], JNull))

\* C22: analyze_cultural_sentiment calls the provider once per country,
\* sequentially in list order; if the call for the k-th country raises, the
\* results already stored for the first k-1 countries are discarded (the
\* returned cultural_insights, sentiment_scores and risk_assessments are
\* empty for all countries), no later country is called, and no
\* cultural_assumption flag is produced for any country in that request.
C22_SequentialCalls == [](C22_Stored) /\ [][C22_Step]_vars

\* "US" answers with a risk of 0.75, which alone would be flagged, and the
\* call for "XX" raises: the request ends without any flag.
C22_Witness ==
    /\ pc = "done"
    /\ target_countries = <<"US", "XX">>
    /\ provider["US"] = JsonReply(JNum(Rat(75, 100)))
    /\ provider["XX"] = [kind |-> "raise"]
    /\ gemini_analysis = FailedSentiment
    /\ bias_results.flags = <<>>
    /\ detect_bias(campaign_content, MergedInOrder(<<"US">>)).flags # <<>>


(***************************************************************************)
(* Claims about the flags (specification FnSpec).                          *)
(***************************************************************************)
\* Every risk of the signal is a number in [0, 1].
RisksInUnitInterval(signal) ==
    \A i \in 1..Len(signal.cultural_insights) :
       LET insights == signal.cultural_insights[i].value
       IN  /\ ~AssumptionRaises(insights)
           /\ RLe(RInt(0), assumption_risk(insights))
           /\ RLe(assumption_risk(insights), RInt(1))

\* C23: every flag returned by detect_bias has an integer severity in
\* 1..10, for every text and every external signal whose assumption_risk
\* values lie in [0,1].
C23_SeverityRange ==
    (call.fn \in {"detect_bias", "_detect_cultural_assumptions"}
       /\ RisksInUnitInterval(call.gemini_analysis)) =>
      \A j \in 1..Len(ret.flags) :
         /\ "severity" \in DOMAIN ret.flags[j]
         /\ ret.flags[j].severity \in 1..10

\* A text with a linguistic match of severity 5 and a stereotype match of
\* severity 8, and a record of risk 1, flagged with severity 10.
C23_Witness ==
    /\ call.fn = "detect_bias"
    /\ RisksInUnitInterval(call.gemini_analysis)
    /\ {ret.flags[j].severity : j \in 1..Len(ret.flags)} = {5, 8, 10}
    /\ \E j \in 1..Len(ret.flags) :
          /\ ret.flags[j].type = "cultural_assumption"
          /\ ret.flags[j].risk_score = RInt(1)
          /\ ret.flags[j].severity = 10


(***************************************************************************)
(* Claims that compare the request with a request of more bias             *)
(* (specification Spec).                                                   *)
(***************************************************************************)
\* What the scoring pipeline computes for the request's countries and
\* cultural analysis from the flag list flags: the final scores in list
\* order and, from them, the overall score, the risk level and the
\* recommendation of the i-th country.
ScoresWith(flags) ==
    [i \in 1..Len(target_countries) |->
       _calculate_country_score(target_countries[i], [flags |-> flags], cultural_analysis)]

OverallOf(scores) == WithOverallScore([overall_score |-> RInt(0)], scores)

RiskOf(scores) == _calculate_risk_level(OverallOf(scores))

RecommendationOf(scores, i) ==
    Recommendation(target_countries[i], scores[i], cultural_analysis)

\* "low" < "medium" < "high"; no recommendation < "medium" < "high".
RiskRank(level) == CASE level = "low" -> 0 [] level = "medium" -> 1 [] level = "high" -> 2

PriorityRank(recs) ==
    IF recs = <<>> THEN 0 ELSE IF recs[1].priority = "medium" THEN 1 ELSE 2

\* The flag lists with one flag more (of the least or the greatest
\* severity, or without a severity) or with the severity of one flag
\* raised by one.
MoreBias(flags) ==
    {Append(flags, f) :
        f \in {[type |-> "stereotype", severity |-> 1],
               [type |-> "stereotype", severity |-> 10],
               [type |-> "linguistic"]}}
    \cup {[flags EXCEPT ![j].severity = @ + 1] :
            j \in {k \in 1..Len(flags) : flags[k].severity < 10}}

\* C24: adding a bias flag to a request, or raising a flag's severity,
\* never increases any country's final score or the overall score, and
\* therefore never moves the risk level toward "low" nor removes or
\* downgrades (high to medium) any recommendation, all other inputs being
\* equal.
C24_MoreBiasNeverHelps ==
    pc = "response" =>
      LET scores == ScoresWith(bias_results.flags)
      IN  /\ country_scores = scores
          /\ alignment_results.overall_score = OverallOf(scores).overall_score
          /\ risk_level = RiskOf(scores)
          /\ \A more \in MoreBias(bias_results.flags) :
               LET lower == ScoresWith(more)
               IN  /\ \A i \in 1..Len(target_countries) :
                        /\ RLe(lower[i], scores[i])
                        /\ PriorityRank(RecommendationOf(lower, i))
                             >= PriorityRank(RecommendationOf(scores, i))
                   /\ RLe(OverallOf(lower).overall_score, OverallOf(scores).overall_score)
                   /\ RiskRank(RiskOf(lower)) >= RiskRank(RiskOf(scores))

\* A request without flags that is answered "low" without a
\* recommendation; one flag of severity 10 more makes it "medium" with a
\* recommendation.
C24_Witness ==
    /\ pc = "response"
    /\ target_countries # <<>>
    /\ bias_results.flags = <<>>
    /\ risk_level = "low"
    /\ recommendations = <<>>
    /\ LET more == <<[type |-> "stereotype", severity |-> 10]>>
       IN  /\ more \in MoreBias(bias_results.flags)
           /\ RiskOf(ScoresWith(more)) = "medium"
           /\ PriorityRank(RecommendationOf(ScoresWith(more), 1)) = 1
           /\ RLt(ScoresWith(more)[1], country_scores[1])


(***************************************************************************)
(* Claims about the range of the final score (specification FnSpec).       *)
(***************************************************************************)
\* cultural_fit_score * 0.7 + (1.0 - bias_penalty) * 0.25 +
\* confidence_bonus * 0.05, before the clamp.
Unclamped(cultural_fit_score, bias_penalty, confidence_bonus) ==
    RAdd(RAdd(RMul(cultural_fit_score, Rat(70, 100)),
              RMul(RSub(RInt(1), bias_penalty), Rat(25, 100))),
         RMul(confidence_bonus, Rat(5, 100)))

InScoreRange(x) == RLe(Rat(5, 100), x) /\ RLe(x, Rat(955, 1000))

\* C25: for every culturalFit in [0,1], every flag list with severities in
\* 1..10 and every confidence bonus in {0, 0.05, 0.10}, the unclamped final
\* score already lies in [0.05, 0.955]: the clamp to [0,1] in
\* _calculate_country_score is never active and a final score of exactly 0
\* or exactly 1 is unreachable.
C25_ClampNeverActive ==
    call.fn = "_calculate_country_score" =>
      LET bias_penalty == _calculate_bias_penalty(call.bias_results)
          cultural_fit_score == _get_cultural_fit_score(call.country, call.cultural_analysis)
          confidence_bonus ==
              _calculate_confidence_bonus(call.country, call.cultural_analysis)
      IN  /\ confidence_bonus \in {RInt(0), Rat(5, 100), Rat(10, 100)}
          /\ ret = Unclamped(cultural_fit_score, bias_penalty, confidence_bonus)
          /\ InScoreRange(ret)
          /\ ret # RInt(0) /\ ret # RInt(1)
          /\ \A fit \in AggGrid, bonus \in {RInt(0), Rat(5, 100), Rat(10, 100)} :
                InScoreRange(Unclamped(fit, bias_penalty, bonus))

\* Eight flags of severity 10 reach the cap of 0.8; "XX" with a cultural
\* score of 0 and a bonus of 0.05 scores 0.25 * 0.2 + 0.05 * 0.05 = 0.0525,
\* and the formula with a bonus of 0 gives the bound 0.05.
C25_Witness ==
    /\ call.fn = "_calculate_country_score"
    /\ call.country = "XX"
    /\ Len(call.bias_results.flags) = 8
    /\ _calculate_bias_penalty(call.bias_results) = Rat(8, 10)
    /\ _get_cultural_fit_score(call.country, call.cultural_analysis) = RInt(0)
    /\ ret = Rat(525, 10000)
    /\ Unclamped(RInt(0), Rat(8, 10), RInt(0)) = Rat(5, 100)


(***************************************************************************)
(* Claims about the data a requested country has (specification PipeSpec). *)
(***************************************************************************)
\* The number of positions of target_countries analyze_cultural_fit has
\* been through.
Analyzed ==
    IF pc \in {"analyze_cultural_sentiment", "detect_bias"} THEN 0
    ELSE IF pc = "analyze_cultural_fit" THEN idx - 1
    ELSE Len(target_countries)

\* C26: in the end-to-end pipeline, when analyze_cultural_fit completes
\* without error, a requested country has a computed cultural score if and
\* only if it has insights if and only if it is in the scorer's static
\* profile table (the analyzer's and the scorer's copies of the table have
\* the same keys); hence confidenceBonus is only ever 0 or 0.10,
\* dataQuality only 0 or 1.0, and the 0.10 standard-error tier is never
\* selected.
C26_AllOrNothing ==
    /\ DOMAIN analyzer_hofstede_data = DOMAIN hofstede_data
    /\ "error" \notin DOMAIN cultural_analysis =>
         \A i \in 1..Analyzed :
             LET c == target_countries[i]
             IN  /\ c \in DOMAIN cultural_analysis.cultural_scores
                      <=> c \in DOMAIN cultural_analysis.insights
                 /\ c \in DOMAIN cultural_analysis.cultural_scores
                      <=> c \in DOMAIN hofstede_data
    /\ "error" \notin DOMAIN cultural_analysis =>
       \A i \in 1..PipeScored :
         LET c == target_countries[i]
             breakdown == alignment_results.score_breakdown[c]
             interval == alignment_results.confidence[c]
         IN  /\ breakdown.confidence_bonus \in {RInt(0), Rat(10, 100)}
             /\ breakdown.data_quality \in {RInt(0), RInt(1)}
             /\ interval.data_quality = breakdown.data_quality
             /\ interval.margin_of_error \in {Rat(98, 1000), Rat(294, 1000)}
             /\ interval.margin_of_error # RMul(Rat(196, 100), Rat(10, 100))

\* "US" has a profile, a cultural score and insights: bonus 0.10, data
\* quality 1, margin 0.098; "XX" has none of them: bonus 0, data quality 0,
\* margin 0.294.
C26_Witness ==
    /\ pc = "done"
    /\ target_countries = <<"US", "XX">>
    /\ "US" \in DOMAIN cultural_analysis.cultural_scores
    /\ "XX" \notin DOMAIN cultural_analysis.insights
    /\ alignment_results.score_breakdown["US"].confidence_bonus = Rat(10, 100)
    /\ alignment_results.score_breakdown["US"].data_quality = RInt(1)
    /\ alignment_results.confidence["US"].margin_of_error = Rat(98, 1000)
    /\ alignment_results.score_breakdown["XX"].confidence_bonus = RInt(0)
    /\ alignment_results.score_breakdown["XX"].data_quality = RInt(0)
    /\ alignment_results.confidence["XX"].margin_of_error = Rat(294, 1000)


(***************************************************************************)
(* Claims about the response (specification FnSpec).                       *)
(***************************************************************************)
\* C27: for any non-empty request, recommendations and risk level are
\* consistent: if no recommendation is emitted for any requested country
\* then the risk level is "low", and if every requested country receives a
\* "high"-priority recommendation then the risk level is "high".
C27_RiskMatchesRecommendations ==
    call.fn = "np.mean" =>
      LET scores == call.country_scores
          risk == _calculate_risk_level_binary64(ret)
          Every(priority) ==
              \A i \in 1..Len(scores) : PriorityBinary64(scores[i]) = priority
      IN  /\ Every("none") => risk = "low"
          /\ Every("high") => risk = "high"


(***************************************************************************)
(* Claims about the empty request (specification PipeSpec).                *)
(***************************************************************************)
\* C28: a request with an empty country list completes without error and
\* yields overall_score 0, an empty country_scores mapping, zero
\* recommendations, and risk level "high".
C28_EmptyRequest ==
    target_countries = <<>> =>
      /\ ~StageRaised
      /\ pc = "done" =>
           /\ response.status = 200
           /\ response.overall_score = RInt(0)
           /\ response.country_scores = EmptyDict
           /\ response.recommendations = <<>>
           /\ response.risk_level = "high"

C28_Witness ==
    /\ pc = "done"
    /\ target_countries = <<>>
    /\ response.status = 200
    /\ response.risk_level = "high"


(***************************************************************************)
(* Claims about the suggestions (specification FnSpec).                    *)
(***************************************************************************)
\* The suggestion of a dimension for a country, by the country's raw value.
VariantOf(dimension, country) ==
    LET value == analyzer_hofstede_data[country][_dimension_code_map[dimension]]
    IN  IF value > 50 THEN suggestions_map[dimension].high
        ELSE suggestions_map[dimension].low

\* C29: a country's suggestion list contains one suggestion for exactly
\* those dimensions whose alignment score is strictly below 0.6, in the
\* fixed dimension order (power_distance, individualism, masculinity,
\* uncertainty_avoidance, long_term_orientation, indulgence), and each
\* suggestion's text is the "high" variant when the country's raw value for
\* that dimension is > 50 and the "low" variant when it is <= 50,
\* independent of the alignment score itself.
C29_SuggestionsBelowThreshold ==
    call.fn = "_generate_suggestions" =>
      LET Below(dimension) == RLt(call.scores[dimension], Rat(6, 10))
          low == SelectSeq(<<"power_distance", "individualism", "masculinity",
                             "uncertainty_avoidance", "long_term_orientation",
                             "indulgence">>, Below)
      IN  ret = [i \in 1..Len(low) |-> VariantOf(low[i], call.country)]

\* "JP" (PDI 54, IDV 46, IVR 42) with power_distance and individualism
\* below 0.6, masculinity at 0.6 and indulgence below: three suggestions,
\* "high", "low" and "low".
C29_Witness ==
    /\ call.fn = "_generate_suggestions"
    /\ call.country = "JP"
    /\ call.scores = [power_distance |-> Rat(5, 10), individualism |-> Rat(5, 10),
                      masculinity |-> Rat(6, 10), uncertainty_avoidance |-> Rat(7, 10),
                      long_term_orientation |-> Rat(7, 10), indulgence |-> Rat(5, 10)]
    /\ ret = <<"Consider emphasizing hierarchy, authority, and formal structures",
               "Emphasize community, family, and collective benefits",
               "Emphasize control, modesty, and serious benefits">>


(***************************************************************************)
(* Claims about the default record (specification PipeSpec).               *)
(***************************************************************************)
\* The requested countries whose reply could not be parsed and whose stored
\* record is the default one.
Unparsed ==
    {c \in Elements(target_countries) :
       /\ provider[c].kind = "bad_json"
       /\ c \in ODictKeys(gemini_analysis.cultural_insights)}

\* The signal without the records of the countries cs.
WithoutRecords(analysis, cs) ==
    LET Kept(item) == item.key \notin cs
    IN  [analysis EXCEPT !.cultural_insights = SelectSeq(@, Kept)]

\* C30: the neutral default record substituted for an unparseable provider
\* reply (assumption_risk = 0.5) never produces a cultural_assumption flag,
\* so a parse failure for a country never changes the bias penalty or any
\* country's score compared with that country having no LLM record at all.
C30_DefaultRecordIsNeutral ==
    LET bare == detect_bias(campaign_content, WithoutRecords(gemini_analysis, Unparsed))
    IN  /\ \A c \in Unparsed :
             ODictGet(gemini_analysis.cultural_insights, c, JNull)
               = _create_default_response(c).fields.insights
        /\ pc \notin {"analyze_cultural_sentiment", "detect_bias"} =>
             /\ \A i \in 1..Len(bias_results.flags) :
                  bias_results.flags[i].type = "cultural_assumption"
                    => bias_results.flags[i].country \notin Unparsed
             /\ bias_results = bare
             /\ _calculate_bias_penalty(bias_results) = _calculate_bias_penalty(bare)
        /\ pc = "done" =>
             \A i \in 1..Len(target_countries) :
                 LET c == target_countries[i]
                 IN  response.country_scores[c]
                       = _calculate_country_score(c, bare, cultural_analysis)

\* The reply for "US" is unparseable, the one for "XX" reports a risk of
\* 0.75: the only cultural_assumption flag is the one of "XX".
C30_Witness ==
    /\ pc = "done"
    /\ target_countries = <<"US", "XX">>
    /\ provider["US"].kind = "bad_json"
    /\ Unparsed = {"US"}
    /\ \E i \in 1..Len(bias_results.flags) :
         /\ bias_results.flags[i].type = "cultural_assumption"
         /\ bias_results.flags[i].country = "XX"
    /\ response.status = 200

=============================================================================
